---- MODULE Spec2Model ----
(***************************************************************************)
(* Model of binance_tracker/core/api_client.py (class BinanceApiClient)    *)
(* and binance_tracker/core/calculator.py: price retrieval, the manual     *)
(* order store, order history and position metrics.                        *)
(*                                                                         *)
(* Prices, quantities and costs are Python floats in the source; the model *)
(* computes with exact numbers (integers, and fractions <<num, den>> for   *)
(* quotients), so floating point rounding is not modelled.                 *)
(***************************************************************************)
EXTENDS Integers, Sequences, FiniteSets, Bags, TLC

VARIABLES
    now,              \* time.time(), in whole seconds
    ticker_cache,     \* self.ticker_cache: symbol -> [time, price]
    symbol_mappings,  \* self.symbol_mappings: invalid symbol -> valid symbol
    manual_orders,    \* self.manual_orders: symbol -> list of orders
    last,             \* observation of the most recent call: arguments,
                      \* upstream answers, result
    socket_manager,   \* self.socket_manager: 0 (None) or a manager object
    socket_connections, \* self.socket_connections: symbol -> connection key
    price_callbacks,  \* self.price_callbacks: symbol -> callback
    managers,         \* the socket manager objects created so far
    ws_threads,       \* run_socket threads started and not yet run
    pollers,          \* poll_price threads that have not exited
    calls,            \* start_symbol_ticker_websocket calls in progress
    next_callback,    \* the number of the next callback function created
    writers,          \* calls in progress that change the manual data
    document,         \* the content of the manual data file
    task_count,       \* TaskPool.task_count
    task_map,         \* TaskPool.task_map: task id -> worker (and callback)
    task_queue,       \* ThreadWorker.task_queue of every worker
    results,          \* ThreadWorker.results of every worker: task id -> result
    running,          \* the task each worker thread is executing, if any
    checkers          \* the _check_results threads that have not ended

streamVars == <<socket_manager, socket_connections, price_callbacks, managers,
                ws_threads, pollers, calls, next_callback>>

fileVars == <<writers, document>>

poolVars == <<task_count, task_map, task_queue, results, running, checkers>>

vars == <<now, ticker_cache, symbol_mappings, manual_orders, last, streamVars,
          fileVars, poolVars>>

(***************************************************************************)
(* Bounds of the model                                                     *)
(***************************************************************************)
MaxTime == 5
MaxManual == 2
MaxRetry == 2
MaxFills == 2

\* the cache freshness window, in seconds
CacheTtl == 5

Symbols == {"XYZUSD", "XYZUSDT"}
Prices == {3, 5}

(***************************************************************************)
(* Python dicts as functions with a finite domain                          *)
(***************************************************************************)
EmptyDict == [k \in {} |-> k]

DictSet(d, k, v) == [x \in (DOMAIN d) \cup {k} |-> IF x = k THEN v ELSE d[x]]

DictGet(d, k, default) == IF k \in DOMAIN d THEN d[k] ELSE default

(***************************************************************************)
(* The exchange API (python-binance Client), an external collaborator.     *)
(* A query either answers or raises; BinanceAPIException carries a code:   *)
(* -1121 invalid symbol, -1015 too many requests, -1010 IP banned, any     *)
(* other code; TRANSPORT stands for an exception that is no                *)
(* BinanceAPIException (a timeout, a connection error).                    *)
(***************************************************************************)
ApiErrors == {"INVALID_SYMBOL", "RATE_LIMITED", "IP_BANNED", "OTHER_API"}
Errors == ApiErrors \cup {"TRANSPORT"}

Answer(p) == [code |-> "OK", price |-> p]
Failure(e) == [code |-> e, price |-> 0]

\* what client.get_symbol_ticker(symbol=s) can answer, for each symbol
TickerAnswers == {Answer(p) : p \in Prices} \cup {Failure(e) : e \in Errors}

\* the five alternative price queries of the first get_symbol_price:
\* endpoint i answers price 10 + i or fails
FallbackEndpoints == 1..5
FallbackAnswer(i, works) == IF works THEN Answer(10 + i) ELSE Failure("INVALID_SYMBOL")
FallbackFrom(k) == [i \in FallbackEndpoints |-> FallbackAnswer(i, i >= k)]
FallbackAnswers == {FallbackFrom(1), FallbackFrom(3), FallbackFrom(6)}

(***************************************************************************)
(* Results of a call: a returned value or a raised exception               *)
(***************************************************************************)
Returned(v) == [ok |-> TRUE, value |-> v, err |-> "NONE"]
Raised(e) == [ok |-> FALSE, value |-> 0, err |-> e]

NoCall == [op |-> "none"]

(***************************************************************************)
(* get_mapped_symbol: self.symbol_mappings.get(symbol, symbol)             *)
(***************************************************************************)
get_mapped_symbol(mappings, symbol) == DictGet(mappings, symbol, symbol)

\* a faulty variant: an existing mapping of the invalid symbol is kept
add_symbol_mapping_keeping_first(mappings, invalid_symbol, valid_symbol) ==
    IF invalid_symbol \in DOMAIN mappings THEN mappings
    ELSE DictSet(mappings, invalid_symbol, valid_symbol)

\* add_symbol_mapping: self.symbol_mappings[invalid_symbol] = valid_symbol
add_symbol_mapping(mappings, invalid_symbol, valid_symbol) ==
    DictSet(mappings, invalid_symbol, valid_symbol)

(***************************************************************************)
(* get_symbol_price.  The class body defines get_symbol_price twice (lines *)
(* 307 and 1349); the later def statement rebinds the class attribute, so  *)
(* the method every caller reaches is the second one: it resolves the      *)
(* mapping first, issues one ticker query for the mapped symbol and        *)
(* returns its price or re-raises its exception.  It neither reads nor     *)
(* writes ticker_cache, never sleeps and tries no other endpoint.          *)
(* The value is the call's whole effect: result, the upstream queries      *)
(* issued in order, the number of backoff sleeps, and the cache after it.  *)
(***************************************************************************)
TickerQuery(s) == [endpoint |-> "get_symbol_ticker", symbol |-> s]

\* a faulty variant: a rate-limited query is retried after a sleep, again and
\* again (MaxRetry + 1 attempts here)
get_symbol_price_retrying(symbol, ticker, mappings, cache) ==
    LET mapped == get_mapped_symbol(mappings, symbol)
        ans == ticker[mapped]
        n == IF ans.code = "RATE_LIMITED" THEN MaxRetry + 1 ELSE 1
    IN [result |-> IF ans.code = "OK" THEN Returned(ans.price) ELSE Raised(ans.code),
        queries |-> [i \in 1..n |-> TickerQuery(mapped)],
        sleeps |-> n - 1,
        cache |-> cache]

\* a faulty variant: the symbol itself is queried first and the mapping is consulted
\* only when that query reports an invalid symbol
get_symbol_price_remapping(symbol, ticker, mappings, cache) ==
    LET mapped == get_mapped_symbol(mappings, symbol)
        first == ticker[symbol]
        ans == IF first.code = "INVALID_SYMBOL" THEN ticker[mapped] ELSE first
    IN [result |-> IF ans.code = "OK" THEN Returned(ans.price) ELSE Raised(ans.code),
        queries |-> IF first.code = "INVALID_SYMBOL" /\ mapped # symbol
                    THEN <<TickerQuery(symbol), TickerQuery(mapped)>>
                    ELSE <<TickerQuery(symbol)>>,
        sleeps |-> 0,
        cache |-> cache]

get_symbol_price(symbol, ticker, mappings, cache) ==
    LET mapped == get_mapped_symbol(mappings, symbol)
        ans == ticker[mapped]
    IN [result |-> IF ans.code = "OK" THEN Returned(ans.price) ELSE Raised(ans.code),
        queries |-> <<TickerQuery(mapped)>>,
        sleeps |-> 0,
        cache |-> cache]

(***************************************************************************)
(* Numbers.  A quantity, cost or price is an exact fraction <<num, den>>   *)
(* in lowest terms with den > 0.                                           *)
(***************************************************************************)
RECURSIVE Gcd(_, _)
Gcd(a, b) == IF b = 0 THEN a ELSE Gcd(b, a % b)

Abs(n) == IF n < 0 THEN -n ELSE n

Frac(n, d) ==
    LET g == Gcd(Abs(n), Abs(d))
        sgn == IF d < 0 THEN -1 ELSE 1
    IN <<(sgn * n) \div g, (sgn * d) \div g>>

R(n) == <<n, 1>>
RAdd(x, y) == Frac(x[1] * y[2] + y[1] * x[2], x[2] * y[2])
RSub(x, y) == Frac(x[1] * y[2] - y[1] * x[2], x[2] * y[2])
RMul(x, y) == Frac(x[1] * y[1], x[2] * y[2])
\* x / y, for y # 0
RDiv(x, y) == Frac(x[1] * y[2], x[2] * y[1])
RPos(x) == x[1] > 0
RIsZero(x) == x[1] = 0

(***************************************************************************)
(* Orders.  An order dictionary with the fields the code reads.  time is   *)
(* a number of milliseconds in an order the exchange sends and the display *)
(* string '%Y-%m-%d %H:%M:%S' in an order get_order_history returns and in *)
(* a manual order; such strings compare as the whole seconds they show, so *)
(* the model holds the number of seconds.                                  *)
(***************************************************************************)
MsPerSecond == 1000

\* time.strftime('%Y-%m-%d %H:%M:%S', time.localtime(ms / 1000))
strftime(ms) == ms \div MsPerSecond

Order(id, symbol, side, status, qty, quote, avg, time, manual) ==
    [orderId |-> id, symbol |-> symbol, side |-> side, status |-> status,
     price |-> avg, executedQty |-> qty, cummulativeQuoteQty |-> quote,
     avgPrice |-> avg, time |-> time, isManual |-> manual]

\* an order as client.get_all_orders sends it (no avgPrice, no isManual yet);
\* its price is 0, as the exchange reports it for a market order
RawOrder(id, symbol, side, status, qty, quote, ms) ==
    Order(id, symbol, side, status, R(qty), R(quote), R(0), ms, FALSE)

\* what the exchange holds for each symbol, oldest first
BookA ==
    [s \in Symbols |->
        IF s = "XYZUSD"
        THEN <<RawOrder(11, s, "BUY", "FILLED", 2, 8, 1000),
               RawOrder(12, s, "BUY", "CANCELED", 0, 0, 1500),
               RawOrder(13, s, "SELL", "FILLED", 1, 5, 1999)>>
        ELSE <<RawOrder(21, s, "BUY", "FILLED", 1, 3, 2000)>>]

BookB ==
    [s \in Symbols |->
        IF s = "XYZUSD"
        THEN << >>
        ELSE <<RawOrder(21, s, "BUY", "FILLED", 1, 3, 2000),
               RawOrder(22, s, "SELL", "PARTIALLY_FILLED", 1, 4, 3000)>>]

Books == {BookA, BookB}

\* the exchange during one call: the order query raises error, or answers
\* with the orders of the symbol asked for
OrderUpstreams == [error : {"NONE"} \cup Errors, book : Books]

\* self.manual_orders.get(symbol, [])
get_manual_orders(manual, symbol) == DictGet(manual, symbol, << >>)

\* a faulty variant: orders of every status are kept
filled_orders_any(orders) == orders

\* [order for order in orders if order['status'] == 'FILLED']
filled_orders(orders) == SelectSeq(orders, LAMBDA o : o.status = "FILLED")

\* the fields get_order_history adds to or rewrites in a filled order
with_calculated_fields(o) ==
    [o EXCEPT !.avgPrice = IF RPos(o.executedQty)
                           THEN RDiv(o.cummulativeQuoteQty, o.executedQty)
                           ELSE R(0),
              !.time = strftime(o.time),
              !.isManual = FALSE]

\* list.sort(key=lambda x: x.get('time', ''), reverse=True): descending by
\* key, elements with equal keys keep their order (the sort is stable)
RECURSIVE InsertDesc(_, _)
InsertDesc(sorted, o) ==
    IF sorted = << >> THEN <<o>>
    ELSE IF Head(sorted).time >= o.time
         THEN <<Head(sorted)>> \o InsertDesc(Tail(sorted), o)
         ELSE <<o>> \o sorted

RECURSIVE SortByTimeDesc(_)
SortByTimeDesc(orders) ==
    IF orders = << >> THEN << >>
    ELSE InsertDesc(SortByTimeDesc(SubSeq(orders, 1, Len(orders) - 1)),
                    orders[Len(orders)])

OrdersQuery(s) == [endpoint |-> "get_all_orders", symbol |-> s]

\* a faulty variant: every exception of the order query is caught, not only
\* BinanceAPIException
get_order_history_catching_all(symbol, upstream, mappings, manual) ==
    LET manual_list == get_manual_orders(manual, symbol)
        mapped_symbol == get_mapped_symbol(mappings, symbol)
        filled == filled_orders(upstream.book[mapped_symbol])
        processed == [i \in 1..Len(filled) |-> with_calculated_fields(filled[i])]
    IN [result |->
            IF upstream.error = "NONE"
            THEN Returned(SortByTimeDesc(processed \o manual_list))
            ELSE Returned(manual_list),
        queries |-> <<OrdersQuery(mapped_symbol)>>]

\* get_order_history(symbol): the list returned or the exception raised,
\* and the upstream query issued.  Only BinanceAPIException is caught.
get_order_history(symbol, upstream, mappings, manual) ==
    LET manual_list == get_manual_orders(manual, symbol)
        mapped_symbol == get_mapped_symbol(mappings, symbol)
        filled == filled_orders(upstream.book[mapped_symbol])
        processed == [i \in 1..Len(filled) |-> with_calculated_fields(filled[i])]
    IN [result |->
            IF upstream.error = "NONE"
            THEN Returned(SortByTimeDesc(processed \o manual_list))
            ELSE IF upstream.error \in ApiErrors
                 THEN Returned(manual_list)
                 ELSE Raised(upstream.error),
        queries |-> <<OrdersQuery(mapped_symbol)>>]

\* add_manual_order(order)
add_manual_order(manual, order) ==
    DictSet(manual, order.symbol, Append(get_manual_orders(manual, order.symbol), order))

\* delete_manual_order(symbol, order_id): every order of the symbol whose
\* orderId differs is kept
delete_manual_order(manual, symbol, order_id) ==
    IF symbol \in DOMAIN manual
    THEN DictSet(manual, symbol, SelectSeq(manual[symbol], LAMBDA o : o.orderId # order_id))
    ELSE manual

(***************************************************************************)
(* Live prices: the state of the web socket part after __init__            *)
(***************************************************************************)
\* the threads that call start_symbol_ticker_websocket concurrently
Workers == {"w1", "w2"}

\* a callback function: the closure price_update made for a symbol
Callback(id, symbol) == [id |-> id, symbol |-> symbol]
NoCallback == Callback(0, "")

Idle == [pc |-> "idle", symbol |-> "", callback |-> NoCallback]

InitStream ==
    /\ socket_manager = 0
    /\ socket_connections = EmptyDict
    /\ price_callbacks = EmptyDict
    /\ managers = << >>
    /\ ws_threads = EmptyBag
    /\ pollers = EmptyBag
    /\ calls = [w \in Workers |-> Idle]
    /\ next_callback = 1

(***************************************************************************)
(* The manual data file: _save_manual_data writes both tables as one JSON  *)
(* document.  The document is the list of its entries: for every key of    *)
(* manual_orders the key and its orders, then the mappings.                *)
(***************************************************************************)
KeyOrder == <<"XYZUSD", "XYZUSDT", "XYZBTC">>

RECURSIVE OrderEntries(_, _)
OrderEntries(manual, i) ==
    IF i > Len(KeyOrder) THEN << >>
    ELSE LET k == KeyOrder[i]
             list == get_manual_orders(manual, k)
         IN (IF k \in DOMAIN manual THEN <<[key |-> k]>> ELSE << >>)
            \o [j \in 1..Len(list) |-> [symbol |-> k, order |-> list[j]]]
            \o OrderEntries(manual, i + 1)

RECURSIVE MappingEntries(_, _)
MappingEntries(mappings, i) ==
    IF i > Len(KeyOrder) THEN << >>
    ELSE LET k == KeyOrder[i]
         IN (IF k \in DOMAIN mappings
             THEN <<[invalid |-> k, valid |-> mappings[k]]>> ELSE << >>)
            \o MappingEntries(mappings, i + 1)

\* json.dump({'manual_orders': ..., 'symbol_mappings': ...})
Doc(manual, mappings) == OrderEntries(manual, 1) \o MappingEntries(mappings, 1)

\* json.load of a document, then the two data.get: the tables it holds
ParsedManual(file) ==
    [k \in {file[i].key : i \in {j \in 1..Len(file) : "key" \in DOMAIN file[j]}} |->
        LET of_key == SelectSeq(file, LAMBDA e : "order" \in DOMAIN e /\ e.symbol = k)
        IN [j \in 1..Len(of_key) |-> of_key[j].order]]

ParsedMappings(file) ==
    LET entries == SelectSeq(file, LAMBDA e : "invalid" \in DOMAIN e)
    IN [k \in {entries[i].invalid : i \in 1..Len(entries)} |->
           (CHOOSE e \in {entries[i] : i \in 1..Len(entries)} : e.invalid = k).valid]

\* _load_manual_data: both tables as the file holds them; both empty when
\* the file is not a JSON document
load_manual_data(file) ==
    IF file = Doc(ParsedManual(file), ParsedMappings(file))
    THEN [manual_orders |-> ParsedManual(file), symbol_mappings |-> ParsedMappings(file)]
    ELSE [manual_orders |-> EmptyDict, symbol_mappings |-> EmptyDict]

\* how _save_manual_data can end: the document is written; makedirs or open
\* raises and the file stays as it was; the write raises after open emptied
\* the file.  The exception is printed and the method returns.
SaveOutcomes == {"written", "open_raised", "write_raised"}

save_manual_data(file, manual, mappings, outcome) ==
    IF outcome = "written" THEN Doc(manual, mappings)
    ELSE IF outcome = "open_raised" THEN file
    ELSE << >>

\* no call in progress on a worker
NoWriter == [pc |-> "idle", call |-> [op |-> "none"], seen |-> << >>, wrote |-> << >>]

\* after _load_manual_data: the file holds what the tables hold
InitFile ==
    /\ writers = [w \in Workers |-> NoWriter]
    /\ document = Doc(manual_orders, symbol_mappings)

(***************************************************************************)
(* utils/threader.py: the task pool after TaskPool(num_workers): every     *)
(* worker thread started with an empty queue and no results, no task       *)
(* added, no _check_results thread                                         *)
(***************************************************************************)
NumWorkers == 2
PoolWorkers == 0..(NumWorkers - 1)
NoTask == -1

InitPool ==
    /\ task_count = 0
    /\ task_map = EmptyDict
    /\ task_queue = [w \in PoolWorkers |-> << >>]
    /\ results = [w \in PoolWorkers |-> EmptyDict]
    /\ running = [w \in PoolWorkers |-> NoTask]
    /\ checkers = << >>

(***************************************************************************)
(* State after __init__ with no data file: empty stores, empty cache       *)
(***************************************************************************)
Init ==
    /\ InitStream
    /\ now = 0
    /\ ticker_cache = EmptyDict
    /\ symbol_mappings = EmptyDict
    /\ manual_orders = EmptyDict
    /\ last = NoCall
    /\ InitFile
    /\ InitPool

\* the passage of time
Tick ==
    /\ now < MaxTime
    /\ now' = now + 1
    /\ UNCHANGED <<ticker_cache, symbol_mappings, manual_orders, last, streamVars, fileVars, poolVars>>

\* add_symbol_mapping(invalid_symbol, valid_symbol)
AddSymbolMappingFrom(saves) ==
    \E invalid \in Symbols, valid \in Symbols, saved \in saves :
        /\ symbol_mappings' = add_symbol_mapping(symbol_mappings, invalid, valid)
        /\ document' = save_manual_data(document, manual_orders, symbol_mappings',
                                        saved)
        /\ last' = [op |-> "add_symbol_mapping", symbol |-> invalid]
        /\ UNCHANGED <<now, ticker_cache, manual_orders, streamVars, writers, poolVars>>

AddSymbolMapping == AddSymbolMappingFrom({"written"})

\* For each symbol, the price a get_symbol_price call last obtained from the
\* exchange for it, and the time of that call: what the previous call knew
\* (its prior), brought up to date with that call's own result.
Unknown == [known |-> FALSE, time |-> 0, price |-> 0]
NoPrices == [s \in Symbols |-> Unknown]

PriorPrices ==
    IF last.op # "get_symbol_price" THEN NoPrices
    ELSE IF last.out.result.ok /\ last.out.queries # << >>
         THEN [last.prior EXCEPT ![last.symbol] =
                  [known |-> TRUE, time |-> last.time, price |-> last.out.result.value]]
         ELSE last.prior

\* one call get_symbol_price(symbol); ticker and fallback are what the
\* exchange answers during the call, drawn from the given sets
GetSymbolPriceFrom(answers, fallbacks, prior) ==
    \E symbol \in Symbols, ticker \in [Symbols -> answers], fallback \in fallbacks :
        LET out == get_symbol_price(symbol, ticker, symbol_mappings, ticker_cache)
        IN /\ ticker_cache' = out.cache
           /\ last' = [op |-> "get_symbol_price", symbol |-> symbol, time |-> now,
                       ticker |-> ticker, fallback |-> fallback,
                       prior |-> prior, out |-> out]
           /\ UNCHANGED <<now, symbol_mappings, manual_orders, streamVars, fileVars, poolVars>>

GetSymbolPrice == GetSymbolPriceFrom(TickerAnswers, FallbackAnswers, NoPrices)

\* the price facade: mappings and price queries under every upstream answer
Next ==
    \/ AddSymbolMapping
    \/ GetSymbolPrice

Spec == Init /\ [][Next]_vars

\* repeated price queries over time (the polling loop of _start_polling, a
\* refresh of the UI), against an exchange that answers, bans the caller or
\* is unreachable
PollAnswers ==
    {Answer(p) : p \in Prices} \cup {Failure(e) : e \in {"IP_BANNED", "OTHER_API", "TRANSPORT"}}

PollSymbolPrice == GetSymbolPriceFrom(PollAnswers, {FallbackFrom(6)}, PriorPrices)

NextPoll ==
    \/ Tick
    \/ PollSymbolPrice

SpecPoll == Init /\ [][NextPoll]_vars

(***************************************************************************)
(* Price retrieval: properties                                             *)
(***************************************************************************)
IsPriceCall == last.op = "get_symbol_price"

\* the answer of the exchange to the first query the call issued
PrimaryAnswer == last.ticker[last.out.queries[1].symbol]

FallbackQuery(i, s) == [endpoint |-> <<"fallback", i>>, symbol |-> s]

\* the first alternative endpoint that answers, 0 when none does
FirstWorking(fallback) ==
    IF \E i \in FallbackEndpoints : fallback[i].code = "OK"
    THEN CHOOSE i \in FallbackEndpoints :
            /\ fallback[i].code = "OK"
            /\ \A j \in 1..(i - 1) : fallback[j].code # "OK"
    ELSE 0

\* C1: once a get_symbol_price call has obtained a price p for a symbol at
\* time t, a call for that symbol made less than 5 seconds after t returns
\* exactly p and issues no upstream query, whatever the exchange would answer.
C1_FreshPriceServedFromCache ==
    (IsPriceCall /\ last.prior[last.symbol].known
        /\ last.time - last.prior[last.symbol].time < CacheTtl)
    => (/\ last.out.result = Returned(last.prior[last.symbol].price)
        /\ last.out.queries = << >>)

\* C2: for a symbol with no cached price, when the exchange answers every
\* ticker query with RATE_LIMITED, one call sleeps at most once, issues at
\* most two queries and ends by raising the rate-limit error.
RateLimitedEverywhere ==
    /\ IsPriceCall
    /\ last.symbol \notin DOMAIN ticker_cache
    /\ \A s \in Symbols : last.ticker[s].code = "RATE_LIMITED"

C2_RateLimitedSurfacesWithoutLooping ==
    RateLimitedEverywhere
    => (/\ last.out.sleeps <= 1
        /\ Len(last.out.queries) <= 2
        /\ \A i \in 1..Len(last.out.queries) :
              last.out.queries[i].endpoint = "get_symbol_ticker"
        /\ last.out.result = Raised("RATE_LIMITED"))

C2_Witness ==
    /\ RateLimitedEverywhere
    /\ Len(last.out.queries) = 1
    /\ last.out.result = Raised("RATE_LIMITED")

\* C3: when the primary query fails with IP_BANNED or with an error other
\* than INVALID_SYMBOL and RATE_LIMITED, the call returns the price cached
\* for the symbol if one exists (a price an earlier call obtained, whatever
\* its age) and otherwise raises the failure; it issues no further query and
\* does not sleep.
FatalFailure ==
    /\ IsPriceCall
    /\ last.out.queries # <<>>
    /\ PrimaryAnswer.code \in {"IP_BANNED", "OTHER_API", "TRANSPORT"}

C3_FatalFailureFallsBackToCache ==
    FatalFailure
    => (/\ Len(last.out.queries) = 1
        /\ last.out.sleeps = 0
        /\ IF last.prior[last.symbol].known
           THEN last.out.result = Returned(last.prior[last.symbol].price)
           ELSE last.out.result = Raised(PrimaryAnswer.code))

\* C4: when the primary query for s fails with INVALID_SYMBOL and s has no
\* mapping, the alternative queries are tried in their fixed order; the
\* price of the first that answers is returned and cached under s, the later
\* ones are not tried, and INVALID_SYMBOL is raised when all of them fail.
C4_FallbackPriceReturnedAndCached ==
    (IsPriceCall /\ get_mapped_symbol(symbol_mappings, last.symbol) = last.symbol
        /\ last.ticker[last.symbol].code = "INVALID_SYMBOL")
    => LET k == FirstWorking(last.fallback)
       IN IF k = 0
          THEN last.out.result = Raised("INVALID_SYMBOL")
          ELSE /\ last.out.result = Returned(last.fallback[k].price)
               /\ last.out.queries = <<TickerQuery(last.symbol)>>
                      \o [i \in 1..k |-> FallbackQuery(i, last.symbol)]
               /\ last.symbol \in DOMAIN ticker_cache
               /\ ticker_cache[last.symbol].price = last.fallback[k].price

\* C5 as stated: when the primary query for s fails with INVALID_SYMBOL and
\* s is mapped to m # s, the call issues exactly one further attempt, for m,
\* and returns its price or raises its failure.
MappedCall ==
    /\ IsPriceCall
    /\ get_mapped_symbol(symbol_mappings, last.symbol) # last.symbol

AnswerResult(ans) == IF ans.code = "OK" THEN Returned(ans.price) ELSE Raised(ans.code)

ManualInputs ==
    {[side |-> "BUY", date |-> 1, price |-> 4, amount |-> 1],
     [side |-> "SELL", date |-> 2, price |-> 6, amount |-> 1]}

\* int(time.time() * 1000) reads the clock to the millisecond, the model's
\* clock holds whole seconds: the milliseconds within the second, and the
\* values random.randint(1, 1000) takes
MsSamples == {0, 1}
RandSamples == {1, 2}

CountManual == LET RECURSIVE Sum(_)
                   Sum(S) == IF S = {} THEN 0
                             ELSE LET x == CHOOSE y \in S : TRUE
                                  IN Len(manual_orders[x]) + Sum(S \ {x})
               IN Sum(DOMAIN manual_orders)

\* add_order of the manual order dialog: builds the order dictionary with a
\* generated negative id and stores it with add_manual_order
AddOrderFrom(inputs, millis, rands, saves) ==
    /\ CountManual < MaxManual
    /\ \E symbol \in Symbols, in \in inputs, ms \in millis, r \in rands, saved \in saves :
        LET order_id == -(now * MsPerSecond + ms) - r
            order == Order(order_id, symbol, in.side, "FILLED", R(in.amount),
                           R(in.price * in.amount), R(in.price), in.date, TRUE)
        IN /\ manual_orders' = add_manual_order(manual_orders, order)
           /\ document' = save_manual_data(document, manual_orders', symbol_mappings,
                                           saved)
           /\ last' = [op |-> "add_manual_order", order |-> order]
           /\ UNCHANGED <<now, ticker_cache, symbol_mappings, streamVars, writers, poolVars>>

AddOrder == AddOrderFrom(ManualInputs, MsSamples, RandSamples, {"written"})

\* confirm_delete of the order row of a stored manual order: calls
\* delete_manual_order with the order's symbol and orderId
ConfirmDeleteFrom(saves) ==
    \E symbol \in DOMAIN manual_orders, saved \in saves :
        \E i \in 1..Len(manual_orders[symbol]) :
            LET order == manual_orders[symbol][i]
            IN /\ manual_orders' = delete_manual_order(manual_orders, order.symbol, order.orderId)
               /\ document' = save_manual_data(document, manual_orders',
                                               symbol_mappings, saved)
               /\ last' = [op |-> "delete_manual_order", order |-> order,
                           before |-> manual_orders]
               /\ UNCHANGED <<now, ticker_cache, symbol_mappings, streamVars, writers, poolVars>>

ConfirmDelete == ConfirmDeleteFrom({"written"})

\* one call get_order_history(symbol)
GetOrderHistory ==
    \E symbol \in Symbols, upstream \in OrderUpstreams :
        /\ last' = [op |-> "get_order_history", symbol |-> symbol,
                    upstream |-> upstream,
                    out |-> get_order_history(symbol, upstream, symbol_mappings,
                                              manual_orders)]
        /\ UNCHANGED <<now, ticker_cache, symbol_mappings, manual_orders, streamVars, fileVars, poolVars>>

\* _load_manual_data: the mapping table a previous session saved
PersistedMappings == {EmptyDict, [k \in {"XYZUSD"} |-> "XYZUSDT"]}

InitOrders ==
    /\ InitStream
    /\ now = 0
    /\ ticker_cache = EmptyDict
    /\ symbol_mappings \in PersistedMappings
    /\ manual_orders = EmptyDict
    /\ last = NoCall
    /\ InitFile
    /\ InitPool

NextOrders ==
    \/ AddOrder
    \/ ConfirmDelete
    \/ GetOrderHistory

SpecOrders == InitOrders /\ [][NextOrders]_vars

\* the dialog accepts any two numbers as price and amount: entries with an
\* amount of zero and with a fractional amount besides the usual ones
EnteredInputs ==
    ManualInputs \cup {[side |-> "BUY", date |-> 2, price |-> 5, amount |-> 0],
                       [side |-> "BUY", date |-> 3, price |-> 3, amount |-> 2]}

AddEnteredOrder == AddOrderFrom(EnteredInputs, {0}, {1}, {"written"})

NextEntries ==
    \/ AddEnteredOrder
    \/ GetOrderHistory

SpecEntries == InitOrders /\ [][NextEntries]_vars

(***************************************************************************)
(* Order history: properties                                               *)
(***************************************************************************)
IsHistoryCall == last.op = "get_order_history"

Range(seq) == {seq[i] : i \in 1..Len(seq)}

Count(x, seq) == Cardinality({i \in 1..Len(seq) : seq[i] = x})

\* the two lists hold the same elements, each as many times
SameElements(a, b) ==
    /\ Len(a) = Len(b)
    /\ \A x \in Range(a) \cup Range(b) : Count(x, a) = Count(x, b)

\* what identifies a fill: where it comes from and what was traded
FillKey(o) ==
    [orderId |-> o.orderId, symbol |-> o.symbol, side |-> o.side,
     executedQty |-> o.executedQty, cummulativeQuoteQty |-> o.cummulativeQuoteQty,
     isManual |-> o.isManual]

Keys(seq) == [i \in 1..Len(seq) |-> FillKey(seq[i])]

NonIncreasingTime(seq) == \A i \in 1..(Len(seq) - 1) : seq[i].time >= seq[i + 1].time

\* the orders the exchange holds for resolve(symbol) whose status is FILLED
ExchangeFills(upstream, symbol) ==
    SelectSeq(upstream.book[get_mapped_symbol(symbol_mappings, symbol)],
              LAMBDA o : o.status = "FILLED")

C7_HistoryNeverRaises ==
    (IsHistoryCall /\ last.upstream.error # "NONE")
    => last.out.result = Returned(get_manual_orders(manual_orders, last.symbol))

\* C8: after the deletion of a stored manual order, get_order_history
\* returns for every symbol what it returned before except that one order:
\* no other manual order and no exchange order is removed or changed.
Without(seq, o) ==
    LET i == CHOOSE j \in 1..Len(seq) : seq[j] = o
    IN SubSeq(seq, 1, i - 1) \o SubSeq(seq, i + 1, Len(seq))

C8_DeleteRemovesExactlyThatFill ==
    last.op = "delete_manual_order"
    => \A symbol \in Symbols, upstream \in OrderUpstreams :
          LET before == get_order_history(symbol, upstream, symbol_mappings,
                                          last.before).result
              after == get_order_history(symbol, upstream, symbol_mappings,
                                         manual_orders).result
          IN IF ~before.ok THEN after = before
             ELSE /\ after.ok
                  /\ SameElements(after.value,
                                  IF symbol = last.order.symbol
                                  THEN Without(before.value, last.order)
                                  ELSE before.value)

(***************************************************************************)
(* Position metrics                                                        *)
(***************************************************************************)
\* calculator.calculate_average_buy_price(orders): running sums over the
\* BUY orders, in list order
RECURSIVE buy_totals(_, _)
buy_totals(orders, acc) ==
    IF orders = << >> THEN acc
    ELSE LET o == Head(orders)
         IN buy_totals(Tail(orders),
                IF o.side = "BUY"
                THEN [cost |-> RAdd(acc.cost, o.cummulativeQuoteQty),
                      qty |-> RAdd(acc.qty, o.executedQty)]
                ELSE acc)

\* a faulty variant: the cost is divided by the number of BUY-side units
\* plus one
calculate_average_buy_price_off_by_one(orders) ==
    LET t == buy_totals(orders, [cost |-> R(0), qty |-> R(0)])
    IN IF RIsZero(t.qty) THEN R(0) ELSE RDiv(t.cost, RAdd(t.qty, R(1)))

calculate_average_buy_price(orders) ==
    LET t == buy_totals(orders, [cost |-> R(0), qty |-> R(0)])
    IN IF RIsZero(t.qty) THEN R(0) ELSE RDiv(t.cost, t.qty)

\* calculator.calculate_break_even_price(orders, fee_rate): running sums of
\* cost, quantity and cost * fee_rate over the BUY orders
RECURSIVE break_even_totals(_, _, _)
break_even_totals(orders, fee_rate, acc) ==
    IF orders = << >> THEN acc
    ELSE LET o == Head(orders)
         IN break_even_totals(Tail(orders), fee_rate,
                IF o.side = "BUY"
                THEN [cost |-> RAdd(acc.cost, o.cummulativeQuoteQty),
                      qty |-> RAdd(acc.qty, o.executedQty),
                      fees |-> RAdd(acc.fees, RMul(o.cummulativeQuoteQty, fee_rate))]
                ELSE acc)

\* a faulty variant: the fees are taken off the cost
calculate_break_even_price_less_fees(orders, fee_rate) ==
    LET t == break_even_totals(orders, fee_rate,
                               [cost |-> R(0), qty |-> R(0), fees |-> R(0)])
    IN IF RIsZero(t.qty) THEN R(0) ELSE RDiv(RSub(t.cost, t.fees), t.qty)

calculate_break_even_price(orders, fee_rate) ==
    LET t == break_even_totals(orders, fee_rate,
                               [cost |-> R(0), qty |-> R(0), fees |-> R(0)])
    IN IF RIsZero(t.qty) THEN R(0) ELSE RDiv(RAdd(t.cost, t.fees), t.qty)

\* calculator.calculate_portfolio_summary(positions): the sums of total_cost
\* and current_value over the positions
RECURSIVE portfolio_totals(_, _)
portfolio_totals(positions, acc) ==
    IF positions = << >> THEN acc
    ELSE portfolio_totals(Tail(positions),
             [total_cost |-> RAdd(acc.total_cost, Head(positions).total_cost),
              total_value |-> RAdd(acc.total_value, Head(positions).current_value)])

\* the dictionary returned for the two sums
summary_of(t) ==
    [total_cost |-> t.total_cost, total_value |-> t.total_value,
     pnl_amount |-> RSub(t.total_value, t.total_cost),
     pnl_percent |-> IF RPos(t.total_cost)
                     THEN RMul(RDiv(RSub(t.total_value, t.total_cost), t.total_cost),
                               R(100))
                     ELSE R(0)]

\* a faulty variant: the percentage is taken of every total cost but 0
summary_of_nonzero_cost(t) ==
    [total_cost |-> t.total_cost, total_value |-> t.total_value,
     pnl_amount |-> RSub(t.total_value, t.total_cost),
     pnl_percent |-> IF RIsZero(t.total_cost) THEN R(0)
                     ELSE RMul(RDiv(RSub(t.total_value, t.total_cost), t.total_cost),
                               R(100))]

calculate_portfolio_summary_of_nonzero_cost(positions) ==
    summary_of_nonzero_cost(portfolio_totals(positions,
        [total_cost |-> R(0), total_value |-> R(0)]))

calculate_portfolio_summary(positions) ==
    summary_of(portfolio_totals(positions, [total_cost |-> R(0), total_value |-> R(0)]))

\* the fee estimate of calculate_position_metrics: cost * 0.001
FeeRate == <<1, 1000>>

\* a faulty variant: a SELL reduces the quantity but not the cost
accumulate_ignoring_sell_cost(acc, o) ==
    LET fees == RAdd(acc.fees, RMul(o.cummulativeQuoteQty, FeeRate))
    IN IF o.side = "BUY"
       THEN [cost |-> RAdd(acc.cost, o.cummulativeQuoteQty),
             qty |-> RAdd(acc.qty, o.executedQty), fees |-> fees]
       ELSE IF o.side = "SELL"
            THEN [cost |-> acc.cost, qty |-> RSub(acc.qty, o.executedQty),
                  fees |-> fees]
            ELSE [acc EXCEPT !.fees = fees]

\* one turn of the loop over the orders: BUY adds cost and quantity, SELL
\* subtracts both, every order adds its fee estimate
accumulate(acc, o) ==
    LET fees == RAdd(acc.fees, RMul(o.cummulativeQuoteQty, FeeRate))
    IN IF o.side = "BUY"
       THEN [cost |-> RAdd(acc.cost, o.cummulativeQuoteQty),
             qty |-> RAdd(acc.qty, o.executedQty), fees |-> fees]
       ELSE IF o.side = "SELL"
            THEN [cost |-> RSub(acc.cost, o.cummulativeQuoteQty),
                  qty |-> RSub(acc.qty, o.executedQty), fees |-> fees]
            ELSE [acc EXCEPT !.fees = fees]

RECURSIVE position_totals(_, _)
position_totals(orders, acc) ==
    IF orders = << >> THEN acc
    ELSE position_totals(Tail(orders), accumulate(acc, Head(orders)))

\* an open order as get_open_orders returns it
OpenOrder(side, orig, executed) ==
    [side |-> side, origQty |-> R(orig), executedQty |-> R(executed),
     lockedQty |-> RSub(R(orig), R(executed))]

\* get_open_orders(symbol): invalid symbol gives the empty list, any other
\* exception is raised
get_open_orders(answer) ==
    IF answer.error = "NONE" THEN Returned(answer.orders)
    ELSE IF answer.error = "INVALID_SYMBOL" THEN Returned(<< >>)
    ELSE Raised(answer.error)

RECURSIVE locked_quantity(_)
locked_quantity(open_orders) ==
    IF open_orders = << >> THEN R(0)
    ELSE LET o == Head(open_orders)
             rest == locked_quantity(Tail(open_orders))
         IN IF o.side = "SELL" THEN RAdd(o.lockedQty, rest) ELSE rest

Metrics(symbol, price, qty, locked, avg, even, cost, value, pnl, pct, manual, error) ==
    [symbol |-> symbol, current_price |-> price, holdings |-> qty,
     available |-> RSub(qty, locked), locked |-> locked,
     avg_buy_price |-> avg, break_even_price |-> even, total_cost |-> cost,
     current_value |-> value, pnl_amount |-> pnl, pnl_percent |-> pct,
     is_manual |-> manual, error |-> error]

\* the dictionary of the except branch: zeros and the error text
ErrorMetrics(symbol, error) ==
    Metrics(symbol, R(0), R(0), R(0), R(0), R(0), R(0), R(0), R(0), R(0), FALSE, error)

\* an optional argument: None (with a value of the type, never read) or a value
None(unread) == [given |-> FALSE, value |-> unread]
Some(v) == [given |-> TRUE, value |-> v]

\* calculate_position_metrics(symbol, include_orders, manual_price,
\* manual_orders).  env is the exchange during the call: its answers to the
\* order query, the open order query and the ticker query.
calculate_position_metrics(symbol, include_orders, manual_price, manual_arg, env, mappings, manual, cache) ==
    LET use_arg == manual_arg.given /\ manual_arg.value # << >>
        history == get_order_history(symbol, env.orders, mappings, manual).result
        fetched == IF use_arg THEN manual_arg.value ELSE history.value
        open == get_open_orders(env.open)
        locked_qty == IF open.ok THEN locked_quantity(open.value) ELSE R(0)
        orders == IF include_orders.given
                  THEN SelectSeq(fetched, LAMBDA o : o.orderId \in include_orders.value)
                  ELSE fetched
        t == position_totals(orders, [cost |-> R(0), qty |-> R(0), fees |-> R(0)])
        quote == get_symbol_price(get_mapped_symbol(mappings, symbol), env.ticker,
                                  mappings, cache).result
        current_price == IF manual_price.given THEN manual_price.value
                         ELSE IF quote.ok THEN R(quote.value) ELSE R(0)
        avg_buy_price == IF RPos(t.qty) THEN RDiv(t.cost, t.qty) ELSE R(0)
        break_even_price == IF RPos(t.qty) THEN RDiv(RAdd(t.cost, t.fees), t.qty)
                            ELSE R(0)
        current_value == RMul(t.qty, current_price)
        pnl_amount == RSub(current_value, t.cost)
        pnl_percent == IF RPos(t.cost) THEN RMul(RDiv(pnl_amount, t.cost), R(100))
                       ELSE R(0)
        is_manual == \/ use_arg
                     \/ \A i \in 1..Len(fetched) : fetched[i].isManual
                     \/ manual_price.given
                     \/ manual_arg.given
    IN IF ~use_arg /\ ~history.ok
       THEN ErrorMetrics(symbol, history.err)
       ELSE IF ~manual_price.given /\ ~quote.ok /\ quote.err # "INVALID_SYMBOL"
            THEN ErrorMetrics(symbol, quote.err)
            ELSE Metrics(symbol, current_price, t.qty, locked_qty, avg_buy_price,
                         break_even_price, t.cost, current_value, pnl_amount,
                         pnl_percent, is_manual, "NONE")

(***************************************************************************)
(* Consolidated order history: get_consolidated_order_history.  The class  *)
(* body defines it twice (lines 402 and 508); the second definition is the *)
(* one bound.  Its probe of a pair catches every exception.                *)
(***************************************************************************)
\* the candidate quote assets, in the order the loop tries them
Quotes == <<"USDT", "BUSD", "USDC", "BTC", "ETH">>

\* f"{asset}{quote}"
Pair(asset, quote) == asset \o quote

\* the endings of the symbols of the model after the asset name
Suffixes == {Quotes[i] : i \in 1..Len(Quotes)} \cup {"USD"}

\* invalid_symbol.startswith(asset)
StartsWith(symbol, asset) == \E q \in Suffixes : symbol = Pair(asset, q)

\* pair[len(asset):]
QuoteAssetOf(pair, asset) == CHOOSE q \in Suffixes : pair = Pair(asset, q)

\* The exchange's side of one pair during a call: what the probe
\* get_all_orders(symbol=pair, limit=1) does (answers with an order, answers
\* with the empty list, or raises), what the full order query of
\* get_order_history does, and whether the pair has orders to send.
PairAnswer(probe, error, has) == [probe |-> probe, error |-> error, has |-> has]

Listed == PairAnswer("SOME", "NONE", TRUE)
ListedNoOrders == PairAnswer("EMPTY", "NONE", FALSE)
Unlisted == PairAnswer("INVALID_SYMBOL", "INVALID_SYMBOL", FALSE)
Unreachable == PairAnswer("TRANSPORT", "TRANSPORT", FALSE)
LostAfterProbe == PairAnswer("SOME", "TRANSPORT", TRUE)
BackAfterProbe == PairAnswer("TRANSPORT", "NONE", TRUE)

PairAnswers == {Listed, ListedNoOrders, Unlisted, Unreachable, LostAfterProbe, BackAfterProbe}

\* the orders the exchange holds for a pair that has orders, oldest first
PairBook(pair, quote) ==
    IF quote = "USDT"
    THEN <<RawOrder(11, pair, "BUY", "FILLED", 2, 8, 1000),
           RawOrder(12, pair, "BUY", "CANCELED", 0, 0, 1500)>>
    ELSE IF quote = "BTC"
         THEN <<RawOrder(31, pair, "BUY", "FILLED", 3, 6, 2000),
                RawOrder(32, pair, "SELL", "FILLED", 1, 3, 2500)>>
         ELSE <<RawOrder(41, pair, "BUY", "FILLED", 1, 2, 500)>>

\* the books of the pairs of an asset, as get_order_history reads them
BooksOf(asset, pairs) ==
    [s \in {Pair(asset, q) : q \in Suffixes} |->
        IF s \in DOMAIN pairs /\ pairs[s].has
        THEN PairBook(s, QuoteAssetOf(s, asset))
        ELSE << >>]

\* has_orders after the probe of one pair: the manual orders are looked at
\* only when the probe raised
has_orders(pair, pairs, manual) ==
    IF pairs[pair].probe = "SOME" THEN TRUE
    ELSE IF pairs[pair].probe = "EMPTY" THEN FALSE
    ELSE pair \in DOMAIN manual /\ manual[pair] # << >>

\* the second loop: the valid symbol of every mapping whose invalid symbol
\* starts with the asset is appended unless already listed
RECURSIVE with_mapped_pairs(_, _, _, _)
with_mapped_pairs(all_pairs, mappings, todo, asset) ==
    IF todo = {} THEN all_pairs
    ELSE LET invalid_symbol == CHOOSE k \in todo : TRUE
             valid_symbol == mappings[invalid_symbol]
             listed == \E i \in 1..Len(all_pairs) : all_pairs[i] = valid_symbol
         IN with_mapped_pairs(
                IF StartsWith(invalid_symbol, asset) /\ ~listed
                THEN Append(all_pairs, valid_symbol) ELSE all_pairs,
                mappings, todo \ {invalid_symbol}, asset)

all_pairs_of(asset, pairs, mappings, manual) ==
    LET candidates == [i \in 1..Len(Quotes) |-> Pair(asset, Quotes[i])]
        present == SelectSeq(candidates, LAMBDA p : has_orders(p, pairs, manual))
    IN with_mapped_pairs(present, mappings, DOMAIN mappings, asset)

\* the conversion of one order of a pair quoted in quote_asset: the rate a
\* price query gives, or none.  BTC and ETH take the price of the quote in
\* the base currency; any other quote tries that price and then the inverse
\* of the reverse pair's price, and is left as it is when both fail.
conversion_from(quote_asset, base_currency, direct, reverse) ==
    IF direct.ok THEN [rate |-> R(direct.value), currency |-> base_currency]
    ELSE IF quote_asset \in {"BTC", "ETH"}
         THEN [rate |-> R(1), currency |-> quote_asset]
         ELSE IF reverse.ok /\ reverse.value # 0
              THEN [rate |-> RDiv(R(1), R(reverse.value)), currency |-> base_currency]
              ELSE [rate |-> R(1), currency |-> base_currency]

\* the two price queries a conversion can make: of the quote in the base
\* currency and of the reverse pair
conversion(quote_asset, base_currency, ticker, mappings, cache) ==
    conversion_from(quote_asset, base_currency,
        get_symbol_price(quote_asset \o base_currency, ticker, mappings, cache).result,
        get_symbol_price(base_currency \o quote_asset, ticker, mappings, cache).result)

\* the fields written into an order of a pair, given the conversion c
with_rate(order, pair, asset, quote_asset, c) ==
    [baseAsset |-> asset, quoteAsset |-> quote_asset, originalSymbol |-> pair,
     normalizedPrice |-> RMul(order.price, c.rate),
     normalizedTotal |-> RMul(order.cummulativeQuoteQty, c.rate),
     baseCurrency |-> c.currency] @@ order

\* a faulty variant: the quantity is converted along with the price
with_rate_scaling_quantity(order, pair, asset, quote_asset, c) ==
    [baseAsset |-> asset, quoteAsset |-> quote_asset, originalSymbol |-> pair,
     normalizedPrice |-> RMul(order.price, c.rate),
     normalizedTotal |-> RMul(order.cummulativeQuoteQty, c.rate),
     baseCurrency |-> c.currency,
     executedQty |-> RMul(order.executedQty, c.rate)] @@ order

\* a faulty variant: the quantity is converted along with the price
normalized_scaling_quantity(order, pair, asset, base_currency, ticker, mappings, cache) ==
    with_rate_scaling_quantity(order, pair, asset, QuoteAssetOf(pair, asset),
        IF QuoteAssetOf(pair, asset) # base_currency
        THEN conversion(QuoteAssetOf(pair, asset), base_currency, ticker, mappings, cache)
        ELSE [rate |-> R(1), currency |-> base_currency])

\* the body of the loop over the orders of a pair: the order with its pair
\* information and its normalized price and total
normalized(order, pair, asset, base_currency, ticker, mappings, cache) ==
    with_rate(order, pair, asset, QuoteAssetOf(pair, asset),
        IF QuoteAssetOf(pair, asset) # base_currency
        THEN conversion(QuoteAssetOf(pair, asset), base_currency, ticker, mappings, cache)
        ELSE [rate |-> R(1), currency |-> base_currency])

\* the exchange as get_order_history(pair) meets it: the order query of the
\* mapped symbol raises or answers from the books
PairUpstream(pair, asset, pairs, mappings) ==
    [error |-> pairs[get_mapped_symbol(mappings, pair)].error,
     book |-> BooksOf(asset, pairs)]

\* the loop over all_pairs from position i on.  The orders are dictionaries
\* shared with the manual order store, so the fields written into a manual
\* order are written into the store; an exception of get_order_history ends
\* the call and keeps what was written before.
RECURSIVE collect_orders(_, _, _, _, _, _, _, _)
collect_orders(all_pairs, i, acc, asset, base_currency, env, mappings, cache) ==
    IF i > Len(all_pairs) THEN [result |-> Returned(SortByTimeDesc(acc.orders)),
                                manual |-> acc.manual]
    ELSE LET pair == all_pairs[i]
             history == get_order_history(pair,
                            PairUpstream(pair, asset, env.pairs, mappings),
                            mappings, acc.manual).result
             norm(o) == normalized(o, pair, asset, base_currency, env.ticker,
                                   mappings, cache)
             orders == [j \in 1..Len(history.value) |-> norm(history.value[j])]
             stored == get_manual_orders(acc.manual, pair)
             manual == IF pair \in DOMAIN acc.manual
                       THEN DictSet(acc.manual, pair,
                                    [j \in 1..Len(stored) |-> norm(stored[j])])
                       ELSE acc.manual
         IN IF ~history.ok
            THEN [result |-> Raised(history.err), manual |-> acc.manual]
            ELSE collect_orders(all_pairs, i + 1,
                     [orders |-> acc.orders \o orders, manual |-> manual],
                     asset, base_currency, env, mappings, cache)

\* get_consolidated_order_history(asset, base_currency): the list returned
\* or the exception raised, and the manual order store after the call
get_consolidated_order_history(asset, base_currency, env, mappings, manual, cache) ==
    collect_orders(all_pairs_of(asset, env.pairs, mappings, manual), 1,
                   [orders |-> << >>, manual |-> manual],
                   asset, base_currency, env, mappings, cache)

\* the dictionary calculate_consolidated_position_metrics returns
ConsolidatedMetrics(asset, base, price, qty, avg, even, cost, value, pnl, pct, pairs, count, error) ==
    [asset |-> asset, baseCurrency |-> base, current_price |-> price,
     holdings |-> qty, avg_buy_price |-> avg, break_even_price |-> even,
     total_cost |-> cost, current_value |-> value, pnl_amount |-> pnl,
     pnl_percent |-> pct, trading_pairs |-> pairs, order_count |-> count,
     error |-> error]

\* the dictionary of its except branch
ConsolidatedError(asset, base, error) ==
    ConsolidatedMetrics(asset, base, R(0), R(0), R(0), R(0), R(0), R(0), R(0), R(0),
                        {}, 0, error)

\* self.fee_rates
TakerFeeRate == <<1, 1000>>
MakerFeeRate == <<1, 1000>>

\* the fee of calculate_consolidated_position_metrics for an order of the
\* given cost: its commission when it has one, else the cost at the taker
\* rate for a BUY and at the maker rate for any other side
consolidated_fee(o, cost) ==
    IF "commission" \in DOMAIN o THEN o.commission
    ELSE IF o.side = "BUY" THEN RMul(cost, TakerFeeRate) ELSE RMul(cost, MakerFeeRate)

\* its loop over the orders: the cost of an order is its normalizedTotal
RECURSIVE consolidated_totals(_, _)
consolidated_totals(orders, acc) ==
    IF orders = << >> THEN acc
    ELSE LET o == Head(orders)
             fees == RAdd(acc.fees, consolidated_fee(o, o.normalizedTotal))
         IN consolidated_totals(Tail(orders),
                IF o.side = "BUY"
                THEN [cost |-> RAdd(acc.cost, o.normalizedTotal),
                      qty |-> RAdd(acc.qty, o.executedQty), fees |-> fees]
                ELSE IF o.side = "SELL"
                     THEN [cost |-> RSub(acc.cost, o.normalizedTotal),
                           qty |-> RSub(acc.qty, o.executedQty), fees |-> fees]
                     ELSE [acc EXCEPT !.fees = fees])

\* the current price of the asset in the base currency: the pair's price,
\* else the price through BTC, else the normalizedPrice of the newest order,
\* else 0; no failure of a price query leaves this block
consolidated_price_from(direct, btc_price, asset_btc_price, all_orders) ==
    IF direct.ok THEN R(direct.value)
    ELSE IF btc_price.ok /\ asset_btc_price.ok
         THEN RMul(R(asset_btc_price.value), R(btc_price.value))
         ELSE IF all_orders # << >> THEN all_orders[1].normalizedPrice
              ELSE R(0)

\* the price queries of that block: the pair, BTC in the base currency, the
\* asset in BTC
consolidated_price(asset, base_currency, all_orders, ticker, mappings, cache) ==
    consolidated_price_from(
        get_symbol_price(asset \o base_currency, ticker, mappings, cache).result,
        get_symbol_price("BTC" \o base_currency, ticker, mappings, cache).result,
        get_symbol_price(asset \o "BTC", ticker, mappings, cache).result,
        all_orders)

\* the metrics over the totals t of the orders and the current price
consolidated_position(asset, base_currency, all_orders, t, current_price) ==
    LET avg_buy_price == IF RPos(t.qty) THEN RDiv(t.cost, t.qty) ELSE R(0)
        break_even_price == IF RPos(t.qty) THEN RDiv(RAdd(t.cost, t.fees), t.qty)
                            ELSE R(0)
        current_value == RMul(t.qty, current_price)
        pnl_percent == IF RPos(t.cost)
                       THEN RMul(RDiv(RSub(RMul(t.qty, current_price), t.cost), t.cost),
                                 R(100))
                       ELSE R(0)
    IN ConsolidatedMetrics(asset, base_currency, current_price, t.qty,
           avg_buy_price, break_even_price, t.cost, current_value,
           RSub(current_value, t.cost), pnl_percent,
           {all_orders[i].originalSymbol : i \in 1..Len(all_orders)},
           Len(all_orders), "NONE")

\* the body of calculate_consolidated_position_metrics after the history
\* call: the error dictionary when it raised, else the metrics of its orders
consolidated_metrics_of(asset, base_currency, history, ticker, mappings, cache) ==
    [result |->
        IF ~history.result.ok
        THEN ConsolidatedError(asset, base_currency, history.result.err)
        ELSE consolidated_position(asset, base_currency, history.result.value,
                 consolidated_totals(history.result.value,
                                     [cost |-> R(0), qty |-> R(0), fees |-> R(0)]),
                 consolidated_price(asset, base_currency, history.result.value,
                                    ticker, mappings, cache)),
     manual |-> history.manual]

\* calculate_consolidated_position_metrics(asset, base_currency): the
\* dictionary returned and the manual order store after the call
calculate_consolidated_position_metrics(asset, base_currency, env, mappings, manual, cache) ==
    consolidated_metrics_of(asset, base_currency,
        get_consolidated_order_history(asset, base_currency, env, mappings, manual,
                                       cache),
        env.ticker, mappings, cache)

\* fills a caller can pass as manual_orders
Fill(id, side, qty, quote) ==
    Order(id, "XYZUSD", side, "FILLED", qty, R(quote), RDiv(R(quote), qty), 1, TRUE)

\* the third carries the commission that was paid for it
FillSamples ==
    {Fill(-1, "BUY", R(1), 20000), Fill(-2, "SELL", <<1, 2>>, 11000),
     Fill(-3, "BUY", <<1, 2>>, 9000) @@ [commission |-> R(5)]}

RECURSIVE SeqsUpTo(_, _)
SeqsUpTo(S, n) ==
    IF n = 0 THEN {<< >>}
    ELSE LET shorter == SeqsUpTo(S, n - 1)
         IN shorter \cup {Append(q, x) : q \in shorter, x \in S}

FillLists == SeqsUpTo(FillSamples, MaxFills)

\* the symbol's open orders on the exchange and how the query for them ends:
\* a query that fails in transport leaves the orders where they are
OpenAnswers ==
    {[error |-> "NONE", orders |-> <<OpenOrder("SELL", 1, 0), OpenOrder("BUY", 3, 1)>>],
     [error |-> "INVALID_SYMBOL", orders |-> << >>],
     [error |-> "TRANSPORT", orders |-> <<OpenOrder("SELL", 2, 1)>>]}

MetricsEnvs ==
    [orders : [error : {"NONE", "INVALID_SYMBOL", "TRANSPORT"}, book : {BookA}],
     open : OpenAnswers,
     ticker : {[s \in Symbols |-> a] :
                  a \in {Answer(3), Failure("INVALID_SYMBOL"), Failure("IP_BANNED"),
                         Failure("TRANSPORT")}}]

\* the arguments and the exchange of one calculate_position_metrics call
MetricsInputs ==
    [op : {"input"},
     symbol : Symbols,
     include_orders : {None({}), Some({-1, -2, 11})},
     manual_price : {None(R(0)), Some(R(22000))},
     manual_arg : {None(<< >>)} \cup {Some(l) : l \in FillLists},
     env : MetricsEnvs]

\* positions a caller can pass to calculate_portfolio_summary: a holding at a
\* gain, one at a loss, one never bought, one whose sales exceed its purchases
Position(cost, value) == [total_cost |-> R(cost), current_value |-> R(value)]
PositionSamples ==
    {Position(9000, 11000), Position(2000, 1000), Position(0, 0), Position(-2000, 0)}

SummaryInputs == [op : {"summary_input"}, positions : SeqsUpTo(PositionSamples, MaxFills)]

\* the asset of the consolidated calls, and the symbols whose price they ask
Asset == "XYZ"
PriceSymbols ==
    {"XYZUSDT", "XYZBTC", "BTCUSDT", "ETHUSDT", "BUSDUSDT", "USDTBUSD", "USDCUSDT",
     "USDTUSDC"}

\* the exchange's pairs of the asset: the USDT and the BTC pair in every
\* condition, the BUSD and the ETH pair listed or not, no USDC pair
PairTables ==
    {[p \in {Pair(Asset, Quotes[i]) : i \in 1..Len(Quotes)} |->
        IF p = Pair(Asset, "USDT") THEN usdt
        ELSE IF p = Pair(Asset, "BTC") THEN btc
        ELSE IF p = Pair(Asset, "USDC") THEN Unlisted
        ELSE rest] :
     usdt \in PairAnswers, btc \in PairAnswers, rest \in {Unlisted, Listed}}

\* the exchange's prices during a consolidated call
PriceTables ==
    {[s \in PriceSymbols |->
        IF s = "BTCUSDT" THEN btc
        ELSE IF s = "XYZUSDT" THEN direct
        ELSE IF s = "BUSDUSDT" THEN busd
        ELSE IF s = "USDTBUSD" THEN reverse
        ELSE IF s \in {"XYZBTC", "ETHUSDT"} THEN Answer(2)
        ELSE Failure("INVALID_SYMBOL")] :
     btc \in {Answer(3), Answer(5), Failure("INVALID_SYMBOL"), Failure("TRANSPORT")},
     direct \in {Answer(5), Failure("INVALID_SYMBOL")},
     busd \in {Answer(1), Failure("INVALID_SYMBOL")},
     reverse \in {Answer(2), Failure("RATE_LIMITED")}}

ConsolidatedInputs ==
    [op : {"consolidated_input"}, asset : {Asset}, base_currency : {"USDT"},
     env : [pairs : PairTables, ticker : PriceTables]]

\* manual orders a previous session saved for the pairs of the asset
ManualUsdt == Order(-1, "XYZUSDT", "BUY", "FILLED", R(1), R(4), R(4), 1, TRUE)
ManualBtc ==
    Order(-2, "XYZBTC", "SELL", "FILLED", R(1), R(2), R(2), 3, TRUE)
        @@ [commission |-> <<1, 100>>]

PersistedManual ==
    {EmptyDict,
     [k \in {"XYZUSDT"} |-> <<ManualUsdt>>],
     [k \in {"XYZBTC"} |-> <<ManualBtc>>],
     [k \in {"XYZUSDT", "XYZBTC"} |-> IF k = "XYZUSDT" THEN <<ManualUsdt>> ELSE <<ManualBtc>>]}

\* mapping tables a previous session saved for symbols of the asset
ConsolidatedMappings ==
    PersistedMappings \cup {[k \in {"XYZBTC"} |-> "XYZUSDT"]}

InitMetrics ==
    /\ InitStream
    /\ now = 0
    /\ ticker_cache = EmptyDict
    /\ \/ /\ symbol_mappings \in PersistedMappings
          /\ manual_orders = EmptyDict
          /\ last \in MetricsInputs
       \/ /\ symbol_mappings \in ConsolidatedMappings
          /\ manual_orders \in PersistedManual
          /\ last \in ConsolidatedInputs
       \/ /\ symbol_mappings = EmptyDict
          /\ manual_orders = EmptyDict
          /\ last \in SummaryInputs
    /\ InitFile
    /\ InitPool

\* one call calculate_position_metrics on the drawn arguments
CalculatePositionMetrics ==
    /\ last.op = "input"
    /\ last' = [op |-> "calculate_position_metrics", in |-> last,
                out |-> calculate_position_metrics(last.symbol, last.include_orders,
                            last.manual_price, last.manual_arg, last.env,
                            symbol_mappings, manual_orders, ticker_cache)]
    /\ UNCHANGED <<now, ticker_cache, symbol_mappings, manual_orders, streamVars, fileVars, poolVars>>

\* one call get_consolidated_order_history on the drawn arguments
GetConsolidatedOrderHistory ==
    /\ last.op = "consolidated_input"
    /\ LET out == get_consolidated_order_history(last.asset, last.base_currency,
                      last.env, symbol_mappings, manual_orders, ticker_cache)
       IN /\ manual_orders' = out.manual
          /\ last' = [op |-> "get_consolidated_order_history", in |-> last,
                      before |-> manual_orders, out |-> out.result]
    /\ UNCHANGED <<now, ticker_cache, symbol_mappings, streamVars, fileVars, poolVars>>

\* one call calculate_consolidated_position_metrics on the drawn arguments
CalculateConsolidatedPositionMetrics ==
    /\ last.op = "consolidated_input"
    /\ LET out == calculate_consolidated_position_metrics(last.asset,
                      last.base_currency, last.env, symbol_mappings,
                      manual_orders, ticker_cache)
       IN /\ manual_orders' = out.manual
          /\ last' = [op |-> "calculate_consolidated_position_metrics", in |-> last,
                      before |-> manual_orders, out |-> out.result]
    /\ UNCHANGED <<now, ticker_cache, symbol_mappings, streamVars, fileVars, poolVars>>

\* one call calculate_portfolio_summary on the drawn positions
CalculatePortfolioSummary ==
    /\ last.op = "summary_input"
    /\ last' = [op |-> "calculate_portfolio_summary", in |-> last,
                out |-> calculate_portfolio_summary(last.positions)]
    /\ UNCHANGED <<now, ticker_cache, symbol_mappings, manual_orders, streamVars, fileVars, poolVars>>

NextMetrics ==
    \/ CalculatePositionMetrics
    \/ GetConsolidatedOrderHistory
    \/ CalculateConsolidatedPositionMetrics
    \/ CalculatePortfolioSummary

SpecMetrics == InitMetrics /\ [][NextMetrics]_vars

(***************************************************************************)
(* Position metrics: properties                                            *)
(***************************************************************************)
IsMetricsCall == last.op = "calculate_position_metrics"

\* the fills the call computes over: the manual_orders argument or else the
\* order history, restricted to include_orders when given
UsedFills ==
    LET in == last.in
        all == IF in.manual_arg.given /\ in.manual_arg.value # << >>
               THEN in.manual_arg.value
               ELSE get_order_history(in.symbol, in.env.orders, symbol_mappings,
                                      manual_orders).result.value
    IN IF in.include_orders.given
       THEN SelectSeq(all, LAMBDA o : o.orderId \in in.include_orders.value)
       ELSE all

\* the sum of field f over the fills of one side, taken over the positions
\* of the list in no particular order
RECURSIVE SumOver(_, _)
SumOver(values, positions) ==
    IF positions = {} THEN R(0)
    ELSE LET i == CHOOSE j \in positions : TRUE
         IN RAdd(values[i], SumOver(values, positions \ {i}))

OfSide(fills, side) == {i \in 1..Len(fills) : fills[i].side = side}

QtySum(fills, side) ==
    SumOver([i \in 1..Len(fills) |-> fills[i].executedQty], OfSide(fills, side))

CostSum(fills, side) ==
    SumOver([i \in 1..Len(fills) |-> fills[i].cummulativeQuoteQty], OfSide(fills, side))

Scenario == <<Fill(-1, "BUY", R(1), 20000), Fill(-2, "SELL", <<1, 2>>, 11000)>>

IsScenario ==
    /\ IsMetricsCall
    /\ last.in.manual_arg = Some(Scenario)
    /\ ~last.in.include_orders.given
    /\ last.in.manual_price = Some(R(22000))

\* C9: the metrics of a fill list have holdings = sum of BUY quantities
\* minus sum of SELL quantities, total cost = sum of BUY costs minus sum of
\* SELL costs, whatever the order of the fills, and pnl_amount = holdings *
\* current price - total cost; the fills [BUY 1 for 20000, SELL 0.5 for
\* 11000] at price 22000 give holdings 0.5, total cost 9000, pnl 2000 and
\* pnl percent 2000 / 9000 * 100.
C9_NetHoldingsCostAndPnl ==
    (IsMetricsCall /\ last.out.error = "NONE")
    => /\ last.out.holdings = RSub(QtySum(UsedFills, "BUY"),
                                   QtySum(UsedFills, "SELL"))
       /\ last.out.total_cost = RSub(CostSum(UsedFills, "BUY"),
                                     CostSum(UsedFills, "SELL"))
       /\ last.out.pnl_amount = RSub(RMul(last.out.holdings, last.out.current_price),
                                     last.out.total_cost)
       /\ IsScenario => /\ last.out.holdings = <<1, 2>>
                        /\ last.out.total_cost = R(9000)
                        /\ last.out.pnl_amount = R(2000)
                        /\ last.out.pnl_percent = Frac(2000 * 100, 9000)

C9_Witness ==
    /\ IsScenario
    /\ last.out.error = "NONE"
    /\ last.out.pnl_amount = R(2000)

\* C10: the avg_buy_price of the metrics is taken over the BUY fills only,
\* sum of BUY costs / sum of BUY quantities, the value
\* calculate_average_buy_price gives for the list, so SELL fills never
\* change it: 20000 for [BUY 1 for 20000, SELL 0.5 for 11000].
C10_AvgBuyPriceOverBuysOnly ==
    (IsMetricsCall /\ last.out.error = "NONE")
    => /\ last.out.avg_buy_price = calculate_average_buy_price(UsedFills)
       /\ IsScenario => last.out.avg_buy_price = R(20000)

(***************************************************************************)
(* Failure semantics of the metrics calls                                  *)
(***************************************************************************)
IsConsolidatedMetricsCall == last.op = "calculate_consolidated_position_metrics"

\* calculate_position_metrics fetches the fills unless it was given some
FillsFetched == ~(last.in.manual_arg.given /\ last.in.manual_arg.value # << >>)

\* the answer to the price query of calculate_position_metrics
MetricsQuote == last.in.env.ticker[get_mapped_symbol(symbol_mappings, last.in.symbol)]

MetricsNumbers(m) ==
    {m.current_price, m.holdings, m.avg_buy_price, m.break_even_price,
     m.total_cost, m.current_value, m.pnl_amount, m.pnl_percent}

\* an exception occurred in calculate_position_metrics: in the order query,
\* in the open order query or in the price query
ExceptionInMetrics ==
    \/ FillsFetched /\ last.in.env.orders.error # "NONE"
    \/ last.in.env.open.error # "NONE"
    \/ ~last.in.manual_price.given /\ MetricsQuote.code # "OK"

\* the pairs get_consolidated_order_history fetched the orders of
FetchedPairs ==
    Range(all_pairs_of(last.in.asset, last.in.env.pairs, symbol_mappings, last.before))

\* an exception occurred in calculate_consolidated_position_metrics: in the
\* order query of a pair or in the price query of the asset
ExceptionInConsolidated ==
    \/ \E p \in FetchedPairs :
          last.in.env.pairs[get_mapped_symbol(symbol_mappings, p)].error # "NONE"
    \/ last.in.env.ticker[get_mapped_symbol(symbol_mappings,
           last.in.asset \o last.in.base_currency)].code # "OK"

EscapesInMetrics ==
    IF FillsFetched /\ last.in.env.orders.error \notin ApiErrors \cup {"NONE"}
    THEN last.in.env.orders.error
    ELSE IF ~last.in.manual_price.given /\ MetricsQuote.code \notin {"OK", "INVALID_SYMBOL"}
         THEN MetricsQuote.code
         ELSE "NONE"

\* the exceptions that reach the except branch of
\* calculate_consolidated_position_metrics: an exception of the order query
\* of a fetched pair that is no BinanceAPIException
EscapesInConsolidated ==
    \E p \in FetchedPairs :
        last.in.env.pairs[get_mapped_symbol(symbol_mappings, p)].error
            \notin ApiErrors \cup {"NONE"}

IsConsolidatedHistoryCall == last.op = "get_consolidated_order_history"

CandidatePairs == {Pair(last.in.asset, Quotes[i]) : i \in 1..Len(Quotes)}

MappingTargets == {symbol_mappings[k] : k \in DOMAIN symbol_mappings}

\* the returned fills that come from a pair
FillsOfPair(p) == SelectSeq(last.out.value, LAMBDA o : o.originalSymbol = p)

\* what get_order_history gives for the pair alone, in the same conditions
OwnHistory(p) ==
    get_order_history(p, PairUpstream(p, last.in.asset, last.in.env.pairs,
                                      symbol_mappings),
                      symbol_mappings, last.before).result

\* C12: for every candidate pair asset+quote (that no mapping adds), the
\* consolidated history includes the fills of the pair if and only if the
\* probe of the exchange returns at least one order for it or a manual fill
\* is stored for it, whether the probe raises or answers the empty list.
C12_PairPresentIffOrdersOrManual ==
    (IsConsolidatedHistoryCall /\ last.out.ok)
    => \A p \in CandidatePairs \ MappingTargets :
          IF \/ last.in.env.pairs[p].probe = "SOME"
             \/ get_manual_orders(last.before, p) # << >>
          THEN SameElements(Keys(FillsOfPair(p)), Keys(OwnHistory(p).value))
          ELSE FillsOfPair(p) = << >>

\* BUY quantity minus SELL quantity of a list of fills
NetQty(fills) == RSub(QtySum(fills, "BUY"), QtySum(fills, "SELL"))

\* the sum of the net quantities of the pairs' own histories
RECURSIVE NetQtyOfPairs(_)
NetQtyOfPairs(pairs) ==
    IF pairs = {} THEN R(0)
    ELSE LET p == CHOOSE q \in pairs : TRUE
         IN RAdd(NetQty(OwnHistory(p).value), NetQtyOfPairs(pairs \ {p}))

\* a fill without the two fields the conversion rate is written into
WithoutNormalized(o) ==
    [f \in (DOMAIN o) \ {"normalizedPrice", "normalizedTotal"} |-> o[f]]

\* the price tables that differ from the one of the call in rates only
SameAnswersOtherRates ==
    {t \in PriceTables : \A s \in PriceSymbols : t[s].code = last.in.env.ticker[s].code}

\* C13: normalization never alters quantities.  The fills returned for a
\* pair are the fills of the pair's own get_order_history, each with the
\* executedQty it has there; the net quantity over the consolidated list,
\* and the holdings of the consolidated metrics, equal the sum of the
\* pairs' net quantities; under other conversion rates the call returns the
\* same fills except for normalizedPrice and normalizedTotal.
C13_NormalizationKeepsQuantities ==
    /\ (IsConsolidatedHistoryCall /\ last.out.ok)
       => /\ \A p \in FetchedPairs :
                SameElements(Keys(FillsOfPair(p)), Keys(OwnHistory(p).value))
          /\ NetQty(last.out.value) = NetQtyOfPairs(FetchedPairs)
          /\ \A t \in SameAnswersOtherRates :
                LET other == get_consolidated_order_history(last.in.asset,
                                 last.in.base_currency,
                                 [last.in.env EXCEPT !.ticker = t],
                                 symbol_mappings, last.before, ticker_cache).result.value
                IN /\ Len(other) = Len(last.out.value)
                   /\ \A i \in 1..Len(other) :
                         WithoutNormalized(other[i]) = WithoutNormalized(last.out.value[i])
    /\ (IsConsolidatedMetricsCall /\ last.out.error = "NONE")
       => last.out.holdings = NetQtyOfPairs(FetchedPairs)

\* fills of the USDT pair and of the BTC pair, the latter converted at a
\* rate other than 1
C13_Witness ==
    /\ IsConsolidatedHistoryCall /\ last.out.ok
    /\ FillsOfPair("XYZUSDT") # << >>
    /\ \E i \in 1..Len(last.out.value) :
          /\ last.out.value[i].originalSymbol = "XYZBTC"
          /\ last.out.value[i].baseCurrency = "USDT"
          /\ last.out.value[i].normalizedTotal # last.out.value[i].cummulativeQuoteQty
    /\ Cardinality(SameAnswersOtherRates) > 1

(***************************************************************************)
(* Live prices: start_symbol_ticker_websocket, _start_polling,             *)
(* stop_symbol_ticker_websocket, close_websockets and the threads they     *)
(* start.  The socket manager is an object of the web socket library; what *)
(* its constructor, its connect, its subscription and its close do (return *)
(* or raise) is the library's choice.                                      *)
(***************************************************************************)
MaxCalls == 2

\* a price text as the exchange sends it, and float(text)
WirePrices == {"3", "5.0"}
float(text) == IF text = "3" THEN 3 ELSE 5

NoEvent == [delivered |-> FALSE]
Event(e) == [delivered |-> TRUE, event |-> e]

\* the messages a ticker subscription can hand to process_ticker: the
\* 24hrTicker dictionary, the dictionary with a data part, a JSON text with
\* a c field, an error dictionary, any other dictionary, any other text
TickerMessages ==
    [kind : {"24hrTicker", "data", "json"}, c : WirePrices]
        \cup [kind : {"error", "other_dict", "other_text"}, c : {"3"}]

\* process_ticker(msg) of a subscription for symbol: the dictionary passed
\* to the callback, if any
process_ticker(msg, symbol) ==
    IF msg.kind \in {"24hrTicker", "data", "json"}
    THEN Event([symbol |-> symbol, price |-> float(msg.c)])
    ELSE NoEvent

\* the messages the manager's on_message can hand to
\* _process_websocket_message: a stream name (the exchange names a ticker
\* stream <symbol>@ticker; a name holding 'ticker@' has something after it),
\* and the price under data.c, under c, or nowhere
StreamForms == {"symbol@ticker", "symbol@ticker@more"}
StreamMessages ==
    [symbol : Symbols, form : StreamForms, where : {"data.c", "c", "none"}, c : WirePrices]

\* _process_websocket_message(msg): the callback called and its dictionary
process_websocket_message(msg, callbacks) ==
    IF msg.form = "symbol@ticker@more" /\ msg.symbol \in DOMAIN callbacks
          /\ msg.where # "none"
    THEN [delivered |-> TRUE, callback |-> callbacks[msg.symbol],
          event |-> [symbol |-> msg.symbol, price |-> float(msg.c)]]
    ELSE [delivered |-> FALSE, callback |-> NoCallback]

\* a faulty variant: the event of the polling path tells where it comes from
poll_price_tagged(symbol, quote) ==
    IF quote.ok
    THEN Event([symbol |-> symbol, price |-> quote.value, source |-> "poll"])
    ELSE NoEvent

\* one turn of poll_price for symbol, given what get_symbol_price(symbol)
\* did: the dictionary passed to the callback, if any
poll_price(symbol, quote) ==
    IF quote.ok THEN Event([symbol |-> symbol, price |-> quote.value]) ELSE NoEvent

Poller(symbol, callback) == [symbol |-> symbol, callback |-> callback]

Manager(status, subs) == [status |-> status, subs |-> subs]

\* threads of one kind: how many run for each symbol and callback
OneThread(symbol, callback) == SetToBag({Poller(symbol, callback)})

\* a step inside a call or a thread that no caller observes
Step == [op |-> "step"]

DictDel(d, k) == [x \in (DOMAIN d) \ {k} |-> d[x]]

\* _start_polling(symbol, callback): registers the callback, starts a
\* poll_price thread and stores the poll identifier
start_polling(symbol, callback) ==
    /\ price_callbacks' = DictSet(price_callbacks, symbol, callback)
    /\ pollers' = pollers (+) OneThread(symbol, callback)
    /\ socket_connections' = DictSet(socket_connections, symbol, "poll")

UnchangedStores ==
    UNCHANGED <<now, ticker_cache, symbol_mappings, manual_orders, fileVars, poolVars>>

SubscribeDone(call, fellback) ==
    [op |-> "subscribe", symbol |-> call.symbol, callback |-> call.callback,
     fellback |-> fellback]

\* start_symbol_ticker_websocket(symbol, callback), first step: the test
\* self.socket_manager is None
BeginSubscribe(w) ==
    /\ calls[w].pc = "idle"
    /\ next_callback <= MaxCalls
    /\ \E symbol \in Symbols :
          calls' = [calls EXCEPT ![w] =
                       [pc |-> IF socket_manager = 0 THEN "create" ELSE "store",
                        symbol |-> symbol,
                        callback |-> Callback(next_callback, symbol)]]
    /\ next_callback' = next_callback + 1
    /\ last' = Step
    /\ UNCHANGED <<socket_manager, socket_connections, price_callbacks, managers,
                   ws_threads, pollers>>
    /\ UnchangedStores

\* second step, after the test found None: the manager is constructed and
\* assigned and the run_socket thread started (then the call sleeps one
\* second), or both constructors raise and the call ends in _start_polling
CreateManager(w) ==
    /\ calls[w].pc = "create"
    /\ \E constructed \in BOOLEAN :
          IF constructed
          THEN /\ managers' = Append(managers, Manager("created", {}))
               /\ socket_manager' = Len(managers) + 1
               /\ ws_threads' = ws_threads (+) OneThread(calls[w].symbol,
                                                         calls[w].callback)
               /\ calls' = [calls EXCEPT ![w].pc = "store"]
               /\ last' = Step
               /\ UNCHANGED <<socket_connections, price_callbacks, pollers>>
          ELSE /\ start_polling(calls[w].symbol, calls[w].callback)
               /\ calls' = [calls EXCEPT ![w] = Idle]
               /\ last' = SubscribeDone(calls[w], TRUE)
               /\ UNCHANGED <<socket_manager, managers, ws_threads>>
    /\ UNCHANGED next_callback
    /\ UnchangedStores

\* last step: the callback is stored and the ticker subscription made on
\* self.socket_manager; when that raises (a manager of None has no
\* subscription method) the call ends in _start_polling
StoreAndSubscribe(w) ==
    /\ calls[w].pc = "store"
    /\ \E subscribed \in (IF socket_manager = 0 THEN {FALSE} ELSE BOOLEAN) :
          IF subscribed
          THEN /\ price_callbacks' = DictSet(price_callbacks, calls[w].symbol,
                                             calls[w].callback)
               /\ managers' = [managers EXCEPT ![socket_manager].subs =
                                  @ \cup {Poller(calls[w].symbol, calls[w].callback)}]
               /\ socket_connections' = DictSet(socket_connections, calls[w].symbol, "ws")
               /\ last' = SubscribeDone(calls[w], FALSE)
               /\ UNCHANGED pollers
          ELSE /\ start_polling(calls[w].symbol, calls[w].callback)
               /\ last' = SubscribeDone(calls[w], TRUE)
               /\ UNCHANGED managers
    /\ calls' = [calls EXCEPT ![w] = Idle]
    /\ UNCHANGED <<socket_manager, ws_threads, next_callback>>
    /\ UnchangedStores

\* a run_socket thread runs: connect (or start) of self.socket_manager
\* returns, or it raises and the thread calls _start_polling with the symbol
\* and callback of the call that started it
RunSocket ==
    \E thread \in BagToSet(ws_threads) :
        /\ \E connected \in (IF socket_manager = 0 THEN {FALSE} ELSE BOOLEAN) :
              IF connected
              THEN /\ managers' = [managers EXCEPT ![socket_manager].status =
                                      IF @ = "closed" THEN @ ELSE "connected"]
                   /\ UNCHANGED <<socket_connections, price_callbacks, pollers>>
              ELSE /\ start_polling(thread.symbol, thread.callback)
                   /\ UNCHANGED managers
        /\ ws_threads' = ws_threads (-) OneThread(thread.symbol, thread.callback)
        /\ last' = Step
        /\ UNCHANGED <<socket_manager, calls, next_callback>>
        /\ UnchangedStores

\* the poll_price threads running for a symbol
PollersOf(symbol) == {p \in BagToSet(pollers) : p.symbol = symbol}

\* stop_symbol_ticker_websocket(symbol): acts only when the symbol has a
\* connection key and a socket manager exists.  A poll key: the callback is
\* removed.  Any other key: stop_socket, which ends the subscription or does
\* nothing.  Then the key and the callback are removed.
StopSymbolTicker ==
    \E symbol \in Symbols, stopped \in BOOLEAN :
        /\ IF symbol \in DOMAIN socket_connections /\ socket_manager # 0
           THEN /\ socket_connections' = DictDel(socket_connections, symbol)
                /\ price_callbacks' = DictDel(price_callbacks, symbol)
                /\ managers' =
                      IF socket_connections[symbol] # "poll" /\ stopped
                      THEN [managers EXCEPT ![socket_manager].subs =
                               {sub \in @ : sub.symbol # symbol}]
                      ELSE managers
           ELSE UNCHANGED <<socket_connections, price_callbacks, managers>>
        /\ last' = [op |-> "stop_symbol_ticker_websocket", symbol |-> symbol,
                    polling |-> PollersOf(symbol) # {},
                    streaming |-> /\ socket_manager # 0
                                  /\ DictGet(socket_connections, symbol, "none") = "ws",
                    manager |-> socket_manager]
        /\ UNCHANGED <<socket_manager, ws_threads, pollers, calls, next_callback>>
        /\ UnchangedStores

\* close_websockets(): acts only when a socket manager exists: close (or
\* disconnect) returns or raises, then the manager and both tables are reset
CloseWebsockets ==
    \E closed \in BOOLEAN :
        /\ IF socket_manager # 0
           THEN /\ managers' = IF closed
                               THEN [managers EXCEPT ![socket_manager] =
                                        Manager("closed", {})]
                               ELSE managers
                /\ socket_manager' = 0
                /\ socket_connections' = EmptyDict
                /\ price_callbacks' = EmptyDict
           ELSE UNCHANGED <<socket_manager, socket_connections, price_callbacks,
                            managers>>
        /\ last' = [op |-> "close_websockets", manager |-> socket_manager,
                    polling |-> pollers # EmptyBag]
        /\ UNCHANGED <<ws_threads, pollers, calls, next_callback>>
        /\ UnchangedStores

\* the step before was a turn of the poll_price thread p in which
\* get_symbol_price raised
FailedTurnOf(p) ==
    /\ last.op = "poll_price"
    /\ last.symbol = p.symbol /\ last.callback = p.callback
    /\ ~last.observed.ok

\* a faulty variant: an exception of get_symbol_price ends the thread
PollPriceEndingOnFailure(answers) ==
    \E p \in BagToSet(pollers) :
        IF p.symbol \in DOMAIN price_callbacks
        THEN \E answer \in answers :
                LET quote == get_symbol_price(p.symbol, [s \in Symbols |-> answer],
                                              symbol_mappings, ticker_cache)
                IN /\ ticker_cache' = quote.cache
                   /\ last' = [op |-> "poll_price", symbol |-> p.symbol,
                               callback |-> p.callback, observed |-> quote.result,
                               after_failure |-> FailedTurnOf(p),
                               out |-> poll_price(p.symbol, quote.result)]
                   /\ pollers' = IF quote.result.ok THEN pollers
                                 ELSE pollers (-) OneThread(p.symbol, p.callback)
                   /\ UNCHANGED <<socket_manager, socket_connections, price_callbacks,
                                  managers, ws_threads, calls, next_callback>>
                   /\ UNCHANGED <<now, symbol_mappings, manual_orders, fileVars, poolVars>>
        ELSE /\ pollers' = pollers (-) OneThread(p.symbol, p.callback)
             /\ last' = Step
             /\ UNCHANGED <<socket_manager, socket_connections, price_callbacks,
                            managers, ws_threads, calls, next_callback>>
             /\ UnchangedStores

\* a poll_price thread at the top of its loop: while its symbol is in
\* price_callbacks it asks the price, passes it to its callback when it got
\* one, and sleeps 5 seconds; else it ends.  An exception of
\* get_symbol_price is printed and the loop goes on.
PollPriceFrom(answers) ==
    \E p \in BagToSet(pollers) :
        IF p.symbol \in DOMAIN price_callbacks
        THEN \E answer \in answers :
                LET quote == get_symbol_price(p.symbol, [s \in Symbols |-> answer],
                                              symbol_mappings, ticker_cache)
                IN /\ ticker_cache' = quote.cache
                   /\ last' = [op |-> "poll_price", symbol |-> p.symbol,
                               callback |-> p.callback, observed |-> quote.result,
                               after_failure |-> FailedTurnOf(p),
                               out |-> poll_price(p.symbol, quote.result)]
                   /\ UNCHANGED <<now, symbol_mappings, manual_orders, streamVars, fileVars, poolVars>>
        ELSE /\ pollers' = pollers (-) OneThread(p.symbol, p.callback)
             /\ last' = Step
             /\ UNCHANGED <<socket_manager, socket_connections, price_callbacks,
                            managers, ws_threads, calls, next_callback>>
             /\ UnchangedStores

\* a connected manager hands a message to the process_ticker of one of its
\* subscriptions
PushTicker ==
    \E m \in 1..Len(managers) :
        /\ managers[m].status = "connected"
        /\ \E sub \in managers[m].subs, msg \in TickerMessages :
              last' = [op |-> "process_ticker", symbol |-> sub.symbol,
                       callback |-> sub.callback, msg |-> msg,
                       out |-> process_ticker(msg, sub.symbol)]
        /\ UNCHANGED streamVars
        /\ UnchangedStores

\* the connected manager hands a message to _process_websocket_message
PushMessage ==
    /\ socket_manager # 0
    /\ managers[socket_manager].status = "connected"
    /\ \E msg \in StreamMessages :
          LET out == process_websocket_message(msg, price_callbacks)
          IN last' = [op |-> "_process_websocket_message", symbol |-> msg.symbol,
                      callback |-> out.callback, msg |-> msg, out |-> out]
    /\ UNCHANGED streamVars
    /\ UnchangedStores

\* the subscription calls of two concurrent workers, the threads they
\* start, and the calls that end subscriptions; the exchange answers every
\* poll with a price
InitStreamSpec ==
    /\ InitStream
    /\ now = 0
    /\ ticker_cache = EmptyDict
    /\ symbol_mappings = EmptyDict
    /\ manual_orders = EmptyDict
    /\ last = NoCall
    /\ InitFile
    /\ InitPool

PollPrice == PollPriceFrom({Answer(3)})

NextStream ==
    \/ \E w \in Workers : BeginSubscribe(w)
    \/ \E w \in Workers : CreateManager(w)
    \/ \E w \in Workers : StoreAndSubscribe(w)
    \/ RunSocket
    \/ StopSymbolTicker
    \/ CloseWebsockets
    \/ PollPrice

SpecStream == InitStreamSpec /\ [][NextStream]_vars

\* the price events of one worker's subscriptions, over both transports and
\* every message and answer
InitDelivery ==
    /\ InitStream
    /\ now = 0
    /\ ticker_cache = EmptyDict
    /\ symbol_mappings \in PersistedMappings
    /\ manual_orders = EmptyDict
    /\ last = NoCall
    /\ InitFile
    /\ InitPool

PollAnyPrice == PollPriceFrom(PollAnswers)

NextDelivery ==
    \/ BeginSubscribe("w1")
    \/ CreateManager("w1")
    \/ StoreAndSubscribe("w1")
    \/ RunSocket
    \/ StopSymbolTicker
    \/ PollAnyPrice
    \/ PushTicker
    \/ PushMessage

SpecDelivery == InitDelivery /\ [][NextDelivery]_vars

(***************************************************************************)
(* Live prices: properties                                                 *)
(***************************************************************************)
\* C14: a start_symbol_ticker_websocket call that met a failure of the
\* connection or of the subscription has returned (it did not raise) and
\* leaves one poll_price thread running for its symbol and callback, so the
\* price is asked once per 5-second period; every price such a thread
\* obtains is passed to its callback.
C14_FailedPushFallsBackToOnePollingLoop ==
    /\ (last.op = "subscribe" /\ last.fellback)
       => CopiesIn(Poller(last.symbol, last.callback), pollers) = 1
    /\ (last.op = "poll_price" /\ last.observed.ok)
       => last.out = Event([symbol |-> last.symbol, price |-> last.observed.value])

\* C15: after stop_symbol_ticker_websocket(symbol) for a symbol a poll_price
\* thread is running for, the symbol is no longer in price_callbacks, so the
\* thread ends at its next loop test, whether a socket manager exists or not.
C15_UnsubscribeEndsPolling ==
    (last.op = "stop_symbol_ticker_websocket" /\ last.polling)
    => last.symbol \notin DOMAIN price_callbacks

\* C16: after close_websockets(), with or without a socket manager, both
\* tables are empty and no socket manager remains, so every poll_price
\* thread ends at its next loop test.
C16_CloseAllClearsEverything ==
    last.op = "close_websockets"
    => /\ socket_connections = EmptyDict
       /\ price_callbacks = EmptyDict
       /\ socket_manager = 0

\* the socket manager objects created and not closed
LiveManagers == {m \in 1..Len(managers) : managers[m].status # "closed"}

\* C17: at most one socket manager object exists that was created and not
\* closed, over every interleaving of the calls of concurrent workers.
C17_AtMostOneConnection == Cardinality(LiveManagers) <= 1

\* a price event was passed to a callback, by either transport
IsDelivery ==
    /\ last.op \in {"poll_price", "process_ticker", "_process_websocket_message"}
    /\ last.out.delivered

\* the price the transport observed: the one get_symbol_price returned, or
\* the number the text of the message stands for
ObservedPrice ==
    IF last.op = "poll_price" THEN last.observed.value ELSE float(last.msg.c)

\* C18: every price event passed to a callback, by process_ticker, by
\* _process_websocket_message or by poll_price, is a record with exactly the
\* fields symbol and price, whose symbol is the one the callback was made
\* for and whose price is the price observed; for the same symbol and price
\* the push path and the polling path pass the same record.
C18_SameEventOnBothTransports ==
    /\ IsDelivery
       => /\ DOMAIN last.out.event = {"symbol", "price"}
          /\ last.out.event.symbol = last.callback.symbol
          /\ last.out.event.price = ObservedPrice
    /\ \A symbol \in Symbols, text \in WirePrices :
          LET polled == poll_price(symbol, Returned(float(text)))
          IN /\ \A kind \in {"24hrTicker", "data", "json"} :
                   process_ticker([kind |-> kind, c |-> text], symbol) = polled
             /\ \A where \in {"data.c", "c"} :
                   LET pushed == process_websocket_message(
                                     [symbol |-> symbol, form |-> "symbol@ticker@more",
                                      where |-> where, c |-> text],
                                     [s \in {symbol} |-> Callback(1, symbol)])
                   IN polled = Event(pushed.event)

\* a ticker message is delivered by the push path while a poll_price thread
\* serves the other symbol
C18_Witness ==
    /\ last.op = "process_ticker"
    /\ last.out.delivered
    /\ \E p \in BagToSet(pollers) :
          /\ p.symbol # last.symbol
          /\ p.symbol \in DOMAIN price_callbacks

(***************************************************************************)
(* Account balances: get_account_info and get_spot_balances                *)
(***************************************************************************)
\* a call that has not returned after the queries the model follows
StillRetrying == [ok |-> FALSE, value |-> 0, err |-> "STILL_RETRYING"]

\* get_account_info() from its i-th account query on; answers are the
\* exchange's answers to the successive queries.  A rate-limited query is
\* followed by a sleep and a call of get_account_info() again, every time.
RECURSIVE get_account_info(_, _, _)
get_account_info(answers, i, account) ==
    IF i > Len(answers)
    THEN [result |-> StillRetrying, queries |-> i - 1, sleeps |-> i - 1]
    ELSE IF answers[i] = "NONE"
         THEN [result |-> Returned(account), queries |-> i, sleeps |-> i - 1]
         ELSE IF answers[i] = "RATE_LIMITED"
              THEN get_account_info(answers, i + 1, account)
              ELSE [result |-> Raised(answers[i]), queries |-> i, sleeps |-> i - 1]

Stablecoins == {"USDT", "USDC", "BUSD", "TUSD", "DAI", "USDP", "FDUSD", "USDK"}

\* the loop over the quotes for one asset, from quote i on: the first
\* asset+quote the price table holds decides the value and ends the loop
RECURSIVE usd_value_from(_, _, _, _)
usd_value_from(asset, total, prices, i) ==
    IF i > Len(Quotes) THEN R(0)
    ELSE LET quote == Quotes[i]
             symbol == Pair(asset, quote)
         IN IF symbol \in DOMAIN prices
            THEN IF quote \in Stablecoins THEN RMul(total, R(prices[symbol]))
                 ELSE IF quote = "BTC" /\ "BTCUSDT" \in DOMAIN prices
                      THEN RMul(RMul(total, R(prices[symbol])), R(prices["BTCUSDT"]))
                      ELSE IF quote = "ETH" /\ "ETHUSDT" \in DOMAIN prices
                           THEN RMul(RMul(total, R(prices[symbol])),
                                     R(prices["ETHUSDT"]))
                           ELSE R(0)
            ELSE usd_value_from(asset, total, prices, i + 1)

usd_value(asset, total, prices) ==
    IF asset \in Stablecoins THEN total ELSE usd_value_from(asset, total, prices, 1)

RLess(x, y) == x[1] * y[2] < y[1] * x[2]

\* sorted(balances, key=usd_value, reverse=True): stable, descending
RECURSIVE InsertByValue(_, _)
InsertByValue(sorted, b) ==
    IF sorted = << >> THEN <<b>>
    ELSE IF ~RLess(Head(sorted).usd_value, b.usd_value)
         THEN <<Head(sorted)>> \o InsertByValue(Tail(sorted), b)
         ELSE <<b>> \o sorted

RECURSIVE SortByValueDesc(_)
SortByValueDesc(balances) ==
    IF balances = << >> THEN << >>
    ELSE InsertByValue(SortByValueDesc(SubSeq(balances, 1, Len(balances) - 1)),
                       balances[Len(balances)])

\* the loop over account['balances']: zero balances and values under
\* min_value are skipped
RECURSIVE valued_balances(_, _, _)
valued_balances(balances, prices, min_value) ==
    IF balances = << >> THEN << >>
    ELSE LET b == Head(balances)
             total == RAdd(b.free, b.locked)
             value == usd_value(b.asset, total, prices)
             rest == valued_balances(Tail(balances), prices, min_value)
         IN IF ~RPos(total) \/ RLess(value, min_value) THEN rest
            ELSE <<[asset |-> b.asset, free |-> b.free, locked |-> b.locked,
                    total |-> total, usd_value |-> value, preferred_pair |-> ""]>>
                 \o rest

\* get_spot_balances(min_value).  env.account holds the answers to the
\* successive account queries, env.tickers the answer to the all-tickers
\* query.  Only BinanceAPIException is caught: a banned or rate-limited
\* ticker query leaves the price table empty, another API error of either
\* query gives the empty list, any other exception leaves the call.
get_spot_balances(min_value, env) ==
    LET info == get_account_info(env.account, 1, env.balances)
        prices == IF env.tickers.error = "NONE" THEN env.tickers.prices ELSE EmptyDict
        result ==
            IF info.result = StillRetrying THEN StillRetrying
            ELSE IF ~info.result.ok
                 THEN IF info.result.err \in ApiErrors THEN Returned(<< >>)
                      ELSE Raised(info.result.err)
                 ELSE IF env.tickers.error \in {"NONE", "IP_BANNED", "RATE_LIMITED"}
                      THEN Returned(SortByValueDesc(
                               valued_balances(info.result.value, prices, min_value)))
                      ELSE IF env.tickers.error \in ApiErrors THEN Returned(<< >>)
                           ELSE Raised(env.tickers.error)
    IN [result |-> result,
        account_queries |-> info.queries,
        ticker_queries |-> IF info.result.ok THEN 1 ELSE 0,
        sleeps |-> info.sleeps]

\* the account of the model: a stable asset, a traded asset, an empty one
Balance(asset, free, locked) == [asset |-> asset, free |-> R(free), locked |-> R(locked)]

AccountBalances == <<Balance("XYZ", 2, 1), Balance("USDT", 10, 0), Balance("NIL", 0, 0)>>

\* price tables of the all-tickers query
TickerTables ==
    {[s \in {"XYZUSDT", "BTCUSDT"} |-> IF s = "XYZUSDT" THEN 3 ELSE 5],
     [s \in {"XYZBTC", "BTCUSDT"} |-> IF s = "XYZBTC" THEN 2 ELSE 5],
     [s \in {"XYZBTC", "XYZETH", "ETHUSDT"} |-> 2]}

TickerListAnswers ==
    [error : {"NONE"}, prices : TickerTables]
        \cup [error : Errors, prices : {EmptyDict}]

\* the answers to the successive account queries of one call
AccountAnswers == [1..(MaxRetry + 1) -> {"NONE"} \cup Errors]

BalanceInputs ==
    [op : {"balances_input"},
     min_value : {R(0), R(8)},
     env : [account : AccountAnswers, balances : {AccountBalances},
            tickers : TickerListAnswers]]

InitBalances ==
    /\ InitStream
    /\ now = 0
    /\ ticker_cache = EmptyDict
    /\ symbol_mappings = EmptyDict
    /\ manual_orders = EmptyDict
    /\ last \in BalanceInputs
    /\ InitFile
    /\ InitPool

\* one call get_spot_balances on the drawn arguments
GetSpotBalances ==
    /\ last.op = "balances_input"
    /\ last' = [op |-> "get_spot_balances", in |-> last,
                out |-> get_spot_balances(last.min_value, last.env)]
    /\ UNCHANGED <<now, ticker_cache, symbol_mappings, manual_orders, streamVars, fileVars, poolVars>>

NextBalances == GetSpotBalances

SpecBalances == InitBalances /\ [][NextBalances]_vars

(***************************************************************************)
(* Account balances: properties                                            *)
(***************************************************************************)
IsBalancesCall == last.op = "get_spot_balances"

\* C19: when every account query is answered with RATE_LIMITED,
\* get_spot_balances sleeps at most once, queries the account at most
\* twice and ends by returning the empty list.
C19_RateLimitedBalancesRetryOnce ==
    (IsBalancesCall /\ \A i \in DOMAIN last.in.env.account :
                          last.in.env.account[i] = "RATE_LIMITED")
    => /\ last.out.sleeps <= 1
       /\ last.out.account_queries <= 2
       /\ last.out.result = Returned(<< >>)

\* the failure the call met first: of the account query (rate limits
\* aside), else of the all-tickers query
BalancesFailure ==
    LET info == get_account_info(last.in.env.account, 1, last.in.env.balances)
    IN IF info.result = StillRetrying THEN "NONE"
       ELSE IF ~info.result.ok THEN info.result.err
       ELSE IF last.in.env.tickers.error = "RATE_LIMITED" THEN "NONE"
       ELSE last.in.env.tickers.error

\* C20: when the account query or the all-tickers query fails with
\* IP_BANNED or with any other error, get_spot_balances does not raise: it
\* returns the empty list, and after IP_BANNED without a further query.
C20_BalancesNeverRaise ==
    (IsBalancesCall /\ BalancesFailure # "NONE")
    => last.out.result = Returned(<< >>)

\* whether the conversion chain of asset through quote is complete in prices
ChainComplete(asset, quote, prices) ==
    /\ Pair(asset, quote) \in DOMAIN prices
    /\ quote \in {"BTC", "ETH"} => Pair(quote, "USDT") \in DOMAIN prices

\* the value of total through the first quote with a complete chain
ValueByFirstCompleteChain(asset, total, prices) ==
    LET complete == {i \in 1..Len(Quotes) : ChainComplete(asset, Quotes[i], prices)}
        first == CHOOSE i \in complete : \A j \in complete : i <= j
        quote == Quotes[first]
        direct == RMul(total, R(prices[Pair(asset, quote)]))
    IN IF asset \in Stablecoins THEN total
       ELSE IF complete = {} THEN R(0)
       ELSE IF quote \in {"BTC", "ETH"}
            THEN RMul(direct, R(prices[Pair(quote, "USDT")]))
            ELSE direct

\* a call that got the account and the price table and returned
IsValuedBalancesCall ==
    /\ IsBalancesCall
    /\ last.out.result.ok
    /\ last.in.env.tickers.error = "NONE"
    /\ last.out.ticker_queries = 1

ReturnedBalanceOf(asset) ==
    {i \in 1..Len(last.out.result.value) : last.out.result.value[i].asset = asset}

\* C21: every asset with a positive balance is valued through the first
\* quote of USDT, BUSD, USDC, BTC, ETH whose conversion chain is complete in
\* the price table (0 when none is), and the result holds exactly the
\* assets with a positive balance whose value is at least min_value.
C21_ValuedByFirstCompleteChain ==
    IsValuedBalancesCall =>
        \A k \in 1..Len(last.in.env.balances) :
            LET b == last.in.env.balances[k]
                total == RAdd(b.free, b.locked)
                value == ValueByFirstCompleteChain(b.asset, total,
                                                   last.in.env.tickers.prices)
                listed == RPos(total) /\ ~RLess(value, last.in.min_value)
            IN /\ listed <=> ReturnedBalanceOf(b.asset) # {}
               /\ \A i \in ReturnedBalanceOf(b.asset) :
                      last.out.result.value[i].usd_value = value

(***************************************************************************)
(* Symbol mappings: add_symbol_mapping and get_mapped_symbol               *)
(***************************************************************************)
MaxAdds == 3

MappingSymbols == {"XYZUSD", "XYZUSDT", "XYZBTC"}

\* a fresh client; last carries the add_symbol_mapping calls made so far
InitMappings ==
    /\ InitStream
    /\ now = 0
    /\ ticker_cache = EmptyDict
    /\ symbol_mappings = EmptyDict
    /\ manual_orders = EmptyDict
    /\ last = [op |-> "none", added |-> << >>, symbol |-> "", out |-> ""]
    /\ InitFile
    /\ InitPool

\* add_symbol_mapping(invalid, valid), noted in the list of calls
AddMapping ==
    \E invalid \in MappingSymbols, valid \in MappingSymbols :
        /\ Len(last.added) < MaxAdds
        /\ symbol_mappings' = add_symbol_mapping(symbol_mappings, invalid, valid)
        /\ last' = [op |-> "add_symbol_mapping",
                    added |-> Append(last.added, <<invalid, valid>>),
                    symbol |-> invalid, out |-> ""]
        /\ document' = save_manual_data(document, manual_orders, symbol_mappings',
                                        "written")
        /\ UNCHANGED <<now, ticker_cache, manual_orders, streamVars, writers, poolVars>>

\* get_mapped_symbol(symbol)
GetMappedSymbol ==
    \E symbol \in MappingSymbols :
        /\ last' = [op |-> "get_mapped_symbol", added |-> last.added,
                    symbol |-> symbol,
                    out |-> get_mapped_symbol(symbol_mappings, symbol)]
        /\ UNCHANGED <<now, ticker_cache, symbol_mappings, manual_orders, streamVars, fileVars, poolVars>>

NextMappings ==
    \/ AddMapping
    \/ GetMappedSymbol

SpecMappings == InitMappings /\ [][NextMappings]_vars

\* the valid symbol of the most recent call for s among the calls made, or
\* s when there was none
LastAdded(added, s) ==
    LET hits == {i \in 1..Len(added) : added[i][1] = s}
    IN IF hits = {} THEN s
       ELSE added[CHOOSE i \in hits : \A j \in hits : j <= i][2]

\* C22: after any sequence of add_symbol_mapping calls, get_mapped_symbol(s)
\* is s when no mapping was added for s and else the valid symbol of the
\* most recent call for s; the lookup is one step (a mapping of the valid
\* symbol is not followed) and changes nothing.
C22_ResolveIsLastWrite ==
    /\ \A s \in MappingSymbols :
           get_mapped_symbol(symbol_mappings, s) = LastAdded(last.added, s)
    /\ last.op = "get_mapped_symbol" => last.out = LastAdded(last.added, last.symbol)

\* a lookup of a symbol mapped twice to different symbols, whose latest
\* valid symbol is itself mapped to another symbol
C22_Witness ==
    /\ last.op = "get_mapped_symbol"
    /\ \E i, j \in 1..Len(last.added) :
           /\ i < j
           /\ last.added[i][1] = last.symbol /\ last.added[j][1] = last.symbol
           /\ last.added[i][2] # last.added[j][2]
    /\ last.out # last.symbol
    /\ LastAdded(last.added, last.out) # last.out

(***************************************************************************)
(* calculator.py: the pure functions over a list of orders                 *)
(***************************************************************************)
\* the fields of an order the calculator reads
CalcOrder(side, qty, quote) ==
    [side |-> side, executedQty |-> qty, cummulativeQuoteQty |-> R(quote)]

\* two purchases, an order that filled nothing, a grant at no cost, a sale
CalcSamples ==
    {CalcOrder("BUY", R(1), 20000), CalcOrder("BUY", <<1, 2>>, 9000),
     CalcOrder("BUY", R(0), 0), CalcOrder("BUY", R(2), 0),
     CalcOrder("SELL", <<1, 2>>, 11000)}

FeeRates == {R(0), FeeRate, <<1, 2>>}

CalculatorInputs ==
    [op : {"calculator_input"}, orders : SeqsUpTo(CalcSamples, MaxFills),
     fee_rate : FeeRates]

InitCalculator ==
    /\ InitStream
    /\ now = 0
    /\ ticker_cache = EmptyDict
    /\ symbol_mappings = EmptyDict
    /\ manual_orders = EmptyDict
    /\ last \in CalculatorInputs
    /\ InitFile
    /\ InitPool

\* one call calculate_average_buy_price on the drawn list
CalculateAverageBuyPrice ==
    /\ last.op = "calculator_input"
    /\ last' = [op |-> "calculate_average_buy_price", in |-> last,
                out |-> calculate_average_buy_price(last.orders)]
    /\ UNCHANGED <<now, ticker_cache, symbol_mappings, manual_orders, streamVars, fileVars, poolVars>>

\* one call calculate_break_even_price on the drawn list and fee rate
CalculateBreakEvenPrice ==
    /\ last.op = "calculator_input"
    /\ last' = [op |-> "calculate_break_even_price", in |-> last,
                out |-> calculate_break_even_price(last.orders, last.fee_rate)]
    /\ UNCHANGED <<now, ticker_cache, symbol_mappings, manual_orders, streamVars, fileVars, poolVars>>

NextCalculator ==
    \/ CalculateAverageBuyPrice
    \/ CalculateBreakEvenPrice

SpecCalculator == InitCalculator /\ [][NextCalculator]_vars

\* the sum of a field over the BUY orders of a list
RECURSIVE SumOfBuys(_, _, _)
SumOfBuys(orders, field, i) ==
    IF i > Len(orders) THEN R(0)
    ELSE RAdd(IF orders[i].side = "BUY" THEN orders[i][field] ELSE R(0),
              SumOfBuys(orders, field, i + 1))

BuyCost(orders) == SumOfBuys(orders, "cummulativeQuoteQty", 1)
BuyQty(orders) == SumOfBuys(orders, "executedQty", 1)
BuyOnly(orders) == \A i \in 1..Len(orders) : orders[i].side = "BUY"
REq(x, y) == x[1] * y[2] = y[1] * x[2]

\* C23: calculate_average_buy_price is the sum of the quote quantities over
\* the sum of the executed quantities of the BUY orders only, and 0 for the
\* empty list and whenever the total BUY quantity is 0.
C23_AverageOverBuys ==
    last.op = "calculate_average_buy_price" =>
        LET orders == last.in.orders
        IN IF RIsZero(BuyQty(orders)) THEN last.out = R(0)
           ELSE REq(RMul(last.out, BuyQty(orders)), BuyCost(orders))

\* a list with a SELL between purchases, with a positive BUY quantity
C23_Witness ==
    /\ last.op = "calculate_average_buy_price"
    /\ ~BuyOnly(last.in.orders)
    /\ RPos(BuyQty(last.in.orders))
    /\ RPos(last.out)

\* C24: for a non-empty list of BUY orders and a fee rate >= 0 the break-even
\* price is (cost + cost * fee_rate) / quantity, at least the average buy
\* price, and equal to it exactly when the fee rate or the total cost is 0;
\* it is 0 when the total BUY quantity is 0.
C24_BreakEvenAtLeastAverage ==
    (last.op = "calculate_break_even_price" /\ last.in.orders # << >>
        /\ BuyOnly(last.in.orders)) =>
        LET orders == last.in.orders
            avg == calculate_average_buy_price(orders)
            cost == BuyCost(orders)
        IN IF RIsZero(BuyQty(orders)) THEN last.out = R(0)
           ELSE /\ REq(RMul(last.out, BuyQty(orders)),
                       RAdd(cost, RMul(cost, last.in.fee_rate)))
                /\ ~RLess(last.out, avg)
                /\ REq(last.out, avg) <=> (RIsZero(last.in.fee_rate) \/ RIsZero(cost))

\* a BUY-only list with a positive cost and a positive fee rate
C24_Witness ==
    /\ last.op = "calculate_break_even_price"
    /\ Len(last.in.orders) = 2
    /\ BuyOnly(last.in.orders)
    /\ RPos(last.in.fee_rate)
    /\ RLess(calculate_average_buy_price(last.in.orders), last.out)

\* C25: a stored manual fill is immutable: a get_consolidated_order_history
\* call adds, removes or changes no field of a stored manual order and
\* leaves the stored lists as they were.
C25_HistoryLeavesManualFillsAlone ==
    IsConsolidatedHistoryCall => manual_orders = last.before

\* C26: for every symbol at most one poll_price thread runs at any time,
\* over every sequence of subscribe, unsubscribe and re-subscribe calls, and
\* a poll_price thread calls only the callback of the current subscription.
C26_AtMostOnePollingLoopPerSymbol ==
    /\ \A symbol \in Symbols :
          /\ Cardinality(PollersOf(symbol)) <= 1
          /\ \A p \in PollersOf(symbol) : CopiesIn(p, pollers) <= 1
    /\ last.op = "poll_price" => price_callbacks[last.symbol] = last.callback

(***************************************************************************)
(* Concurrent changes of the manual data: add_manual_order,                *)
(* delete_manual_order and add_symbol_mapping called on two threads.  No   *)
(* lock is taken; a thread can be switched between any two statements.     *)
(***************************************************************************)
StoredOrder == Order(-3, "XYZUSDT", "BUY", "FILLED", R(1), R(4), R(4), 1, TRUE)

AddCall(order) == [op |-> "add_manual_order", order |-> order]
DeleteCall(symbol, order_id) ==
    [op |-> "delete_manual_order", symbol |-> symbol, order_id |-> order_id]
MappingCall(invalid, valid) ==
    [op |-> "add_symbol_mapping", invalid |-> invalid, valid |-> valid]

\* two first orders of a symbol, an order of a symbol that has one, the
\* deletion of that one, two mappings
WriterCalls ==
    {AddCall(Order(-1, "XYZUSD", "BUY", "FILLED", R(1), R(5), R(5), 2, TRUE)),
     AddCall(Order(-2, "XYZUSD", "SELL", "FILLED", R(1), R(3), R(3), 3, TRUE)),
     AddCall(Order(-4, "XYZUSDT", "BUY", "FILLED", R(2), R(6), R(3), 4, TRUE)),
     DeleteCall("XYZUSDT", -3),
     MappingCall("XYZUSD", "XYZUSDT"),
     MappingCall("XYZBTC", "XYZUSDT")}

InitWriters ==
    /\ InitStream
    /\ now = 0
    /\ ticker_cache = EmptyDict
    /\ symbol_mappings = EmptyDict
    /\ manual_orders = [k \in {"XYZUSDT"} |-> <<StoredOrder>>]
    /\ last = NoCall
    /\ InitFile
    /\ InitPool

WriterStep(w, pc) == writers' = [writers EXCEPT ![w].pc = pc]

WriterFrame ==
    UNCHANGED <<now, ticker_cache, last, streamVars, poolVars>>

\* a thread enters one of the three methods; the other thread is not in a
\* call with the same arguments
BeginCall(w) ==
    /\ writers[w].pc = "idle"
    /\ \E call \in WriterCalls :
          /\ \A v \in Workers : writers[v].call # call
          /\ writers' = [writers EXCEPT ![w] =
                [pc |-> IF call.op = "add_symbol_mapping" THEN "assign" ELSE "test",
                 call |-> call, seen |-> << >>, wrote |-> << >>]]
    /\ UNCHANGED <<symbol_mappings, manual_orders, document>>
    /\ WriterFrame

\* add_manual_order: if symbol not in self.manual_orders
AddTest(w) ==
    /\ writers[w].pc = "test" /\ writers[w].call.op = "add_manual_order"
    /\ WriterStep(w, IF writers[w].call.order.symbol \in DOMAIN manual_orders
                     THEN "append" ELSE "init")
    /\ UNCHANGED <<symbol_mappings, manual_orders, document>>
    /\ WriterFrame

\* add_manual_order: self.manual_orders[symbol] = []
AddInit(w) ==
    /\ writers[w].pc = "init"
    /\ manual_orders' = DictSet(manual_orders, writers[w].call.order.symbol, << >>)
    /\ WriterStep(w, "append")
    /\ UNCHANGED <<symbol_mappings, document>>
    /\ WriterFrame

\* add_manual_order: self.manual_orders[symbol].append(order)
AddAppend(w) ==
    /\ writers[w].pc = "append"
    /\ manual_orders' = add_manual_order(manual_orders, writers[w].call.order)
    /\ WriterStep(w, "open")
    /\ UNCHANGED <<symbol_mappings, document>>
    /\ WriterFrame

\* delete_manual_order: if symbol in self.manual_orders; else it returns
DeleteTest(w) ==
    /\ writers[w].pc = "test" /\ writers[w].call.op = "delete_manual_order"
    /\ WriterStep(w, IF writers[w].call.symbol \in DOMAIN manual_orders
                     THEN "read" ELSE "done")
    /\ UNCHANGED <<symbol_mappings, manual_orders, document>>
    /\ WriterFrame

\* delete_manual_order: the list comprehension reads the stored list
DeleteRead(w) ==
    /\ writers[w].pc = "read"
    /\ writers' = [writers EXCEPT ![w].pc = "replace",
                                  ![w].seen = manual_orders[writers[w].call.symbol]]
    /\ UNCHANGED <<symbol_mappings, manual_orders, document>>
    /\ WriterFrame

\* delete_manual_order: the new list is assigned to self.manual_orders[symbol]
DeleteReplace(w) ==
    /\ writers[w].pc = "replace"
    /\ manual_orders' =
          DictSet(manual_orders, writers[w].call.symbol,
                  SelectSeq(writers[w].seen,
                            LAMBDA o : o.orderId # writers[w].call.order_id))
    /\ WriterStep(w, "open")
    /\ UNCHANGED <<symbol_mappings, document>>
    /\ WriterFrame

\* add_symbol_mapping: self.symbol_mappings[invalid_symbol] = valid_symbol
MappingAssign(w) ==
    /\ writers[w].pc = "assign"
    /\ symbol_mappings' = add_symbol_mapping(symbol_mappings, writers[w].call.invalid,
                                             writers[w].call.valid)
    /\ WriterStep(w, "open")
    /\ UNCHANGED <<manual_orders, document>>
    /\ WriterFrame

\* _save_manual_data: open(path, 'w') empties the file
SaveOpen(w) ==
    /\ writers[w].pc = "open"
    /\ document' = << >>
    /\ WriterStep(w, "write")
    /\ UNCHANGED <<symbol_mappings, manual_orders>>
    /\ WriterFrame

\* _save_manual_data: json.dump serializes both tables as they are now
\* into the buffer of the file object
SaveDump(w) ==
    /\ writers[w].pc = "write"
    /\ writers' = [writers EXCEPT ![w].pc = "close",
                                  ![w].wrote = Doc(manual_orders, symbol_mappings)]
    /\ UNCHANGED <<symbol_mappings, manual_orders, document>>
    /\ WriterFrame

\* _save_manual_data: leaving the with block writes the buffer from the
\* start of the file; what another thread wrote beyond that length stays
SaveClose(w) ==
    /\ writers[w].pc = "close"
    /\ document' = writers[w].wrote
                   \o SubSeq(document, Len(writers[w].wrote) + 1, Len(document))
    /\ WriterStep(w, "done")
    /\ UNCHANGED <<symbol_mappings, manual_orders>>
    /\ WriterFrame

NextWriters ==
    \E w \in Workers :
        \/ BeginCall(w)
        \/ AddTest(w)
        \/ AddInit(w)
        \/ AddAppend(w)
        \/ DeleteTest(w)
        \/ DeleteRead(w)
        \/ DeleteReplace(w)
        \/ MappingAssign(w)
        \/ SaveOpen(w)
        \/ SaveDump(w)
        \/ SaveClose(w)

SpecWriters == InitWriters /\ [][NextWriters]_vars

\* both threads have returned from their calls
AllReturned == \A w \in Workers : writers[w].pc = "done"

\* the tables hold what the call of w did
EffectOf(w) ==
    LET call == writers[w].call
    IN IF call.op = "add_manual_order"
       THEN Count(call.order, get_manual_orders(manual_orders, call.order.symbol)) = 1
       ELSE IF call.op = "delete_manual_order"
            THEN \A o \in Range(get_manual_orders(manual_orders, call.symbol)) :
                     o.orderId # call.order_id
            ELSE get_mapped_symbol(symbol_mappings, call.invalid) = call.valid

\* C27: when add_manual_order, delete_manual_order and add_symbol_mapping
\* run concurrently, after all of them have returned the tables hold the
\* effect of every call and the file holds the complete document one of the
\* calls wrote.
C27_ConcurrentMutationsSerialized ==
    AllReturned =>
        /\ \A w \in Workers : EffectOf(w)
        /\ \E w \in Workers : document = writers[w].wrote

\* C28: every fill get_order_history returns, from the exchange or entered
\* by hand, has avgPrice = cummulativeQuoteQty / executedQty when
\* executedQty > 0 and avgPrice = 0 otherwise.
C28_AvgPriceRecomputed ==
    (IsHistoryCall /\ last.out.result.ok) =>
        \A i \in 1..Len(last.out.result.value) :
            LET o == last.out.result.value[i]
            IN IF RPos(o.executedQty)
               THEN REq(RMul(o.avgPrice, o.executedQty), o.cummulativeQuoteQty)
               ELSE RIsZero(o.avgPrice)

\* the answer of the exchange to a price query during the call
PriceDuringCall(symbol) ==
    IF symbol \in DOMAIN last.in.env.ticker
    THEN get_symbol_price(symbol, last.in.env.ticker, symbol_mappings,
                          ticker_cache).result
    ELSE Raised("INVALID_SYMBOL")

\* the conversion rate from quote to the base currency of the call: the
\* price of the direct pair, else the inverse of the price of the reverse
\* pair; none when neither is to be had
RateObtained(quote) ==
    LET direct == PriceDuringCall(quote \o last.in.base_currency)
        reverse == PriceDuringCall(last.in.base_currency \o quote)
    IN IF direct.ok THEN <<R(direct.value)>>
       ELSE IF reverse.ok /\ reverse.value # 0 THEN <<RDiv(R(1), R(reverse.value))>>
       ELSE << >>

\* C29: a fill whose quote asset differs from the base currency gets the
\* requested base currency and price and total multiplied by the rate
\* exactly when a rate was obtained; when none was, it keeps price and total
\* and its baseCurrency is its own quote asset.
C29_UnconvertedFillKeepsItsQuote ==
    (IsConsolidatedHistoryCall /\ last.out.ok) =>
        \A i \in 1..Len(last.out.value) :
            LET o == last.out.value[i]
                rate == RateObtained(o.quoteAsset)
            IN o.quoteAsset # last.in.base_currency =>
                  IF rate # << >>
                  THEN /\ o.baseCurrency = last.in.base_currency
                       /\ REq(o.normalizedPrice, RMul(o.price, rate[1]))
                       /\ REq(o.normalizedTotal, RMul(o.cummulativeQuoteQty, rate[1]))
                  ELSE /\ o.baseCurrency = o.quoteAsset
                       /\ o.normalizedPrice = o.price
                       /\ o.normalizedTotal = o.cummulativeQuoteQty

\* the fee of a fill of the given cost: its commission when it has one, else
\* the cost at the taker rate for a BUY and at the maker rate for a SELL
FeeByRule(o, cost) ==
    IF "commission" \in DOMAIN o THEN o.commission
    ELSE RMul(cost, IF o.side = "BUY" THEN TakerFeeRate ELSE MakerFeeRate)

RECURSIVE FeesByRule(_, _, _)
FeesByRule(fills, field, i) ==
    IF i > Len(fills) THEN R(0)
    ELSE RAdd(FeeByRule(fills[i], fills[i][field]), FeesByRule(fills, field, i + 1))

\* the fills calculate_consolidated_position_metrics aggregated
ConsolidatedFills ==
    get_consolidated_order_history(last.in.asset, last.in.base_currency, last.in.env,
                                   symbol_mappings, last.before,
                                   ticker_cache).result.value

\* C30: the fees counted in the break-even price are, fill by fill, the
\* commission of the fill when it has one and else its cost at the taker
\* rate (BUY) or the maker rate (SELL), in calculate_position_metrics and in
\* calculate_consolidated_position_metrics alike.
C30_FeeIsCommissionOrRate ==
    /\ (IsMetricsCall /\ last.out.error = "NONE" /\ RPos(last.out.holdings)) =>
          REq(RMul(last.out.break_even_price, last.out.holdings),
              RAdd(last.out.total_cost,
                   FeesByRule(UsedFills, "cummulativeQuoteQty", 1)))
    /\ (IsConsolidatedMetricsCall /\ last.out.error = "NONE"
            /\ RPos(last.out.holdings)) =>
          REq(RMul(last.out.break_even_price, last.out.holdings),
              RAdd(last.out.total_cost,
                   FeesByRule(ConsolidatedFills, "normalizedTotal", 1)))

(***************************************************************************)
(* Locked and available quantity of calculate_position_metrics             *)
(***************************************************************************)
\* the sum of origQty - executedQty over the SELL orders of a list
RECURSIVE SellRemainder(_)
SellRemainder(open_orders) ==
    IF open_orders = << >> THEN R(0)
    ELSE IF Head(open_orders).side = "SELL"
         THEN RAdd(RSub(Head(open_orders).origQty, Head(open_orders).executedQty),
                   SellRemainder(Tail(open_orders)))
         ELSE SellRemainder(Tail(open_orders))

\* C31: the locked quantity of the metrics calculate_position_metrics
\* reports without an error is the sum of origQty - executedQty over the
\* symbol's open SELL orders, open BUY orders adding nothing, and available
\* is holdings - locked in every metrics object returned.
C31_LockedIsOpenSellRemainder ==
    IsMetricsCall =>
        /\ last.out.error = "NONE" =>
               REq(last.out.locked, SellRemainder(last.in.env.open.orders))
        /\ REq(last.out.available, RSub(last.out.holdings, last.out.locked))

(***************************************************************************)
(* The percentage of profit or loss                                        *)
(***************************************************************************)
\* pnl_percent against its rule: 0 for a total cost <= 0, else
\* pnl_amount / total_cost * 100, a number in either case
PercentByRule(pnl_percent, pnl_amount, total_cost) ==
    /\ pnl_percent[2] > 0
    /\ IF RPos(total_cost)
       THEN REq(RMul(pnl_percent, total_cost), RMul(pnl_amount, R(100)))
       ELSE pnl_percent = R(0)

RECURSIVE SumOfField(_, _, _)
SumOfField(positions, field, i) ==
    IF i > Len(positions) THEN R(0)
    ELSE RAdd(positions[i][field], SumOfField(positions, field, i + 1))

\* C32: pnl_percent is 0 whenever total_cost <= 0 and pnl_amount /
\* total_cost * 100 otherwise, with pnl_amount = current_value - total_cost,
\* in calculate_position_metrics, calculate_consolidated_position_metrics
\* and calculate_portfolio_summary, whose totals are the sums over the
\* positions; no list of fills or positions leads to a division by zero.
C32_PercentGuardedByTotalCost ==
    /\ (IsMetricsCall \/ IsConsolidatedMetricsCall) =>
          /\ PercentByRule(last.out.pnl_percent, last.out.pnl_amount,
                           last.out.total_cost)
          /\ REq(last.out.pnl_amount,
                 RSub(RMul(last.out.holdings, last.out.current_price),
                      last.out.total_cost))
          /\ last.out.avg_buy_price[2] > 0
          /\ last.out.break_even_price[2] > 0
    /\ last.op = "calculate_portfolio_summary" =>
          /\ PercentByRule(last.out.pnl_percent, last.out.pnl_amount,
                           last.out.total_cost)
          /\ REq(last.out.total_cost, SumOfField(last.in.positions, "total_cost", 1))
          /\ REq(last.out.total_value,
                 SumOfField(last.in.positions, "current_value", 1))
          /\ REq(last.out.pnl_amount, RSub(last.out.total_value, last.out.total_cost))

\* a summary over two positions whose costs cancel to 0 while value remains
C32_Witness ==
    /\ last.op = "calculate_portfolio_summary"
    /\ Len(last.in.positions) = 2
    /\ RIsZero(last.out.total_cost)
    /\ ~RIsZero(last.in.positions[1].total_cost)
    /\ RPos(last.out.pnl_amount)
    /\ last.out.pnl_percent = R(0)

(***************************************************************************)
(* The ids of manual orders                                                *)
(***************************************************************************)
\* the order ids the exchange uses in the books of the model
ExchangeIds ==
    UNION {{book[s][i].orderId : i \in 1..Len(book[s])} : book \in Books, s \in Symbols}

\* C33: every stored manual order has a negative orderId, different from
\* every exchange order id, and after any sequence of add_manual_order calls
\* no two manual orders of a symbol have the same orderId, orders created in
\* the same millisecond included.
C33_ManualIdsNegativeAndUnique ==
    \A symbol \in DOMAIN manual_orders :
        LET stored == manual_orders[symbol]
        IN /\ \A i \in 1..Len(stored) :
                 stored[i].orderId < 0 /\ stored[i].orderId \notin ExchangeIds
           /\ \A i, j \in 1..Len(stored) :
                 i # j => stored[i].orderId # stored[j].orderId

(***************************************************************************)
(* Live prices: the end of a push subscription                             *)
(***************************************************************************)
\* the ticker subscriptions for a symbol that managers still serve
SubscriptionsOf(symbol) ==
    {sub \in UNION {managers[m].subs : m \in 1..Len(managers)} : sub.symbol = symbol}

\* C34: stop_symbol_ticker_websocket(symbol) for a symbol served by the
\* socket manager ends the symbol's ticker subscription on the manager,
\* whatever interface the manager has, and removes the symbol from
\* socket_connections and price_callbacks; a price event of process_ticker
\* reaches only the callback registered for its symbol at that time, so none
\* reaches a callback after the stop call for it returned.
C34_StopEndsPushSubscription ==
    /\ (last.op = "stop_symbol_ticker_websocket" /\ last.streaming) =>
          /\ last.symbol \notin DOMAIN socket_connections
          /\ last.symbol \notin DOMAIN price_callbacks
          /\ SubscriptionsOf(last.symbol) = {}
    /\ (last.op = "process_ticker" /\ last.out.delivered) =>
          /\ last.symbol \in DOMAIN price_callbacks
          /\ price_callbacks[last.symbol] = last.callback

(***************************************************************************)
(* The manual data across sessions: every change of a table is followed by *)
(* _save_manual_data, whose failure the caller does not see, and the next  *)
(* __init__ reads the file with _load_manual_data.                         *)
(***************************************************************************)
\* a new session: __init__ sets both tables to {} and loads the file
LoadManualData ==
    /\ manual_orders' = load_manual_data(document).manual_orders
    /\ symbol_mappings' = load_manual_data(document).symbol_mappings
    /\ last' = [op |-> "_load_manual_data"]
    /\ UNCHANGED <<now, ticker_cache, document, writers, streamVars, poolVars>>

\* one purchase, entered for either symbol
StoredInputs == {in \in ManualInputs : in.side = "BUY"}
AddStoredOrder == AddOrderFrom(StoredInputs, {0}, {1}, SaveOutcomes)
DeleteStoredOrder == ConfirmDeleteFrom(SaveOutcomes)
AddStoredMapping == AddSymbolMappingFrom(SaveOutcomes)

NextSessions ==
    \/ AddStoredOrder
    \/ DeleteStoredOrder
    \/ AddStoredMapping
    \/ LoadManualData

SpecSessions == InitOrders /\ [][NextSessions]_vars

\* the call before was a change of the manual data that returned True
ChangeReturnedTrue ==
    last.op \in {"add_manual_order", "delete_manual_order", "add_symbol_mapping"}

\* C35: after add_manual_order, delete_manual_order or add_symbol_mapping
\* returned True the file holds exactly the two tables as they are in memory,
\* so that _load_manual_data of the next session restores them unchanged; a
\* call returns True only when its change is in the file.
C35_FileHoldsTablesAfterSuccess ==
    ChangeReturnedTrue =>
        /\ load_manual_data(document).manual_orders = manual_orders
        /\ load_manual_data(document).symbol_mappings = symbol_mappings

(***************************************************************************)
(* Consolidated order history: no fill twice                               *)
(***************************************************************************)
\* the fills of a list that the exchange sent
ExchangeFillsIn(fills) == SelectSeq(fills, LAMBDA o : ~o.isManual)

\* no two fills of the list are the same exchange order
NoExchangeFillTwice(fills) ==
    \A i, j \in 1..Len(ExchangeFillsIn(fills)) :
        i # j => \/ ExchangeFillsIn(fills)[i].orderId # ExchangeFillsIn(fills)[j].orderId
                 \/ ExchangeFillsIn(fills)[i].symbol # ExchangeFillsIn(fills)[j].symbol

\* the pairs in the order the call walks them
PairsWalked ==
    all_pairs_of(last.in.asset, last.in.env.pairs, symbol_mappings, last.before)

\* C36: for every mapping table and every store of manual orders, the list
\* get_consolidated_order_history returns holds each exchange fill at most
\* once and the call asks the exchange for the orders of each pair at most
\* once, so calculate_consolidated_position_metrics counts no exchange fill
\* twice.
C36_NoExchangeFillCountedTwice ==
    /\ (IsConsolidatedHistoryCall /\ last.out.ok) =>
          /\ NoExchangeFillTwice(last.out.value)
          /\ \A i, j \in 1..Len(PairsWalked) :
                i # j => get_mapped_symbol(symbol_mappings, PairsWalked[i])
                            # get_mapped_symbol(symbol_mappings, PairsWalked[j])
    /\ (IsConsolidatedMetricsCall /\ last.out.error = "NONE") =>
          NoExchangeFillTwice(ConsolidatedFills)

(***************************************************************************)
(* Live prices: a poll_price thread and the failures of get_symbol_price   *)
(***************************************************************************)
\* C37: a turn of poll_price in which get_symbol_price raised passes nothing
\* to the callback and leaves the thread running; the first later turn in
\* which get_symbol_price returns, the symbol still being in
\* price_callbacks, passes that price to the callback.
C37_PollingSurvivesPriceFailure ==
    last.op = "poll_price" =>
        /\ ~last.observed.ok =>
              /\ ~last.out.delivered
              /\ CopiesIn(Poller(last.symbol, last.callback), pollers) >= 1
        /\ (last.after_failure /\ last.observed.ok) =>
              last.out = Event([symbol |-> last.symbol, price |-> last.observed.value])

\* a price was passed to the callback in the turn after one that failed
C37_Witness ==
    /\ last.op = "poll_price"
    /\ last.after_failure
    /\ last.observed.ok
    /\ last.out.delivered
    /\ last.symbol \in DOMAIN price_callbacks

(***************************************************************************)
(* utils/threader.py: TaskPool.add_task, ThreadWorker._worker_loop and     *)
(* TaskPool._check_results.  A task is its number n (task id 'task-n'); its *)
(* callback is the one passed with it.  last.invoked lists the calls of    *)
(* callbacks made so far.                                                  *)
(***************************************************************************)
MaxTasks == 3

PoolFrame ==
    UNCHANGED <<now, ticker_cache, symbol_mappings, manual_orders, streamVars,
                fileVars>>

InitTaskPool ==
    /\ InitStream
    /\ now = 0
    /\ ticker_cache = EmptyDict
    /\ symbol_mappings = EmptyDict
    /\ manual_orders = EmptyDict
    /\ last = [op |-> "none", invoked |-> << >>]
    /\ InitFile
    /\ InitPool

\* a _check_results thread at its loop test
NewChecker == [pc |-> "test", tasks |-> << >>]

\* the task ids of a dictionary in the order of list(d.items()): the order
\* of insertion, which is the order of the task numbers
RECURSIVE Items(_, _)
Items(d, n) ==
    IF n >= MaxTasks THEN << >>
    ELSE (IF n \in DOMAIN d THEN <<n>> ELSE << >>) \o Items(d, n + 1)

\* ThreadWorker.get_result(task_id, remove=False)
get_result(worker_results, task_id) ==
    IF task_id \notin DOMAIN worker_results
    THEN [success |-> "False", result |-> "None"]
    ELSE worker_results[task_id]

\* TaskPool.add_task(func, callback=callback): the task goes to the queue of
\* the next worker in turn, its callback into task_map, and a _check_results
\* thread is started when task_map then holds one entry
AddTask ==
    /\ task_count < MaxTasks
    /\ task_count' = task_count + 1
    /\ task_queue' = [task_queue EXCEPT ![task_count % NumWorkers] =
                         Append(@, task_count)]
    /\ task_map' = DictSet(task_map, task_count, task_count % NumWorkers)
    /\ checkers' = IF Cardinality(DOMAIN task_map') = 1
                   THEN Append(checkers, NewChecker) ELSE checkers
    /\ UNCHANGED <<results, running, last>>
    /\ PoolFrame

\* _worker_loop: task_queue.get gives the next task of the worker's queue
WorkerGet(w) ==
    /\ running[w] = NoTask
    /\ task_queue[w] # << >>
    /\ running' = [running EXCEPT ![w] = Head(task_queue[w])]
    /\ task_queue' = [task_queue EXCEPT ![w] = Tail(@)]
    /\ UNCHANGED <<task_count, task_map, results, checkers, last>>
    /\ PoolFrame

\* _worker_loop: func returns or raises and the result is stored
WorkerStore(w) ==
    /\ running[w] # NoTask
    /\ \E returned \in BOOLEAN :
          results' = [results EXCEPT ![w] =
                         DictSet(@, running[w],
                                 IF returned
                                 THEN [success |-> "True", result |-> "value"]
                                 ELSE [success |-> "False", result |-> "str(e)"])]
    /\ running' = [running EXCEPT ![w] = NoTask]
    /\ UNCHANGED <<task_count, task_map, task_queue, checkers, last>>
    /\ PoolFrame

\* the threads without the one at index c
EndThread(threads, c) ==
    SubSeq(threads, 1, c - 1) \o SubSeq(threads, c + 1, Len(threads))

\* _check_results: 'while self.task_map' ends the thread or copies the items
CheckerTest(c) ==
    /\ checkers[c].pc = "test"
    /\ checkers' = IF task_map = EmptyDict THEN EndThread(checkers, c)
                   ELSE [checkers EXCEPT ![c] =
                            [pc |-> "visit", tasks |-> Items(task_map, 0)]]
    /\ UNCHANGED <<task_count, task_map, task_queue, results, running, last>>
    /\ PoolFrame

\* where a task is: in a queue, with a worker, or done
StageOf(task) ==
    IF \E w \in PoolWorkers : task \in DOMAIN results[w] THEN "finished"
    ELSE IF \E w \in PoolWorkers : running[w] = task THEN "running"
    ELSE "queued"

\* _check_results, one turn of the for loop: get_result(task_id,
\* remove=False); 'success is not None' holds for True and for False, so the
\* callback is called and the task deleted from task_map; a task that is no
\* longer there makes the del raise KeyError, which ends the thread
CheckerVisit(c) ==
    /\ checkers[c].pc = "visit"
    /\ checkers[c].tasks # << >>
    /\ LET task == Head(checkers[c].tasks)
           got == get_result(results[task % NumWorkers], task)
       IN /\ last' = [op |-> "callback",
                      invoked |-> Append(last.invoked,
                                    [task |-> task, success |-> got.success,
                                     result |-> got.result, stage |-> StageOf(task)])]
          /\ task_map' = DictDel(task_map, task)
          /\ checkers' = IF task \in DOMAIN task_map
                         THEN [checkers EXCEPT ![c].tasks = Tail(@)]
                         ELSE EndThread(checkers, c)
    /\ UNCHANGED <<task_count, task_queue, results, running>>
    /\ PoolFrame

\* _check_results: the for loop is over, time.sleep(0.1), back to the test
CheckerSleep(c) ==
    /\ checkers[c].pc = "visit"
    /\ checkers[c].tasks = << >>
    /\ checkers' = [checkers EXCEPT ![c].pc = "test"]
    /\ UNCHANGED <<task_count, task_map, task_queue, results, running, last>>
    /\ PoolFrame

NextTaskPool ==
    \/ AddTask
    \/ \E w \in PoolWorkers : WorkerGet(w)
    \/ \E w \in PoolWorkers : WorkerStore(w)
    \/ \E c \in 1..Len(checkers) : CheckerTest(c)
    \/ \E c \in 1..Len(checkers) : CheckerVisit(c)
    \/ \E c \in 1..Len(checkers) : CheckerSleep(c)

SpecTaskPool == InitTaskPool /\ [][NextTaskPool]_vars

\* the calls of the callback of a task
InvocationsOf(task) == SelectSeq(last.invoked, LAMBDA i : i.task = task)

\* nothing is left to do for any thread of the pool
PoolIdle ==
    /\ checkers = << >>
    /\ \A w \in PoolWorkers : running[w] = NoTask /\ task_queue[w] = << >>

\* C38: the callback of a task added with a callback is called only after
\* the task's function has finished on its worker, with (True, result) when
\* it returned and (False, error text) when it raised, never more than once
\* and, when the pool has nothing left to do, exactly once.
C38_CallbackOnceAfterTaskFinished ==
    /\ \A i \in 1..Len(last.invoked) :
          LET call == last.invoked[i]
          IN /\ call.stage = "finished"
             /\ [success |-> call.success, result |-> call.result]
                   = results[call.task % NumWorkers][call.task]
    /\ \A task \in 0..(task_count - 1) : Len(InvocationsOf(task)) <= 1
    /\ PoolIdle => \A task \in 0..(task_count - 1) : Len(InvocationsOf(task)) = 1

(***************************************************************************)
(* Position metrics of a holding that was partly sold                      *)
(***************************************************************************)
\* fills a caller can pass as manual_orders: two purchases, a sale above the
\* purchase price and a sale below it
TradedFills ==
    {Fill(-1, "BUY", R(1), 20000), Fill(-3, "BUY", <<1, 2>>, 9000),
     Fill(-4, "SELL", <<1, 2>>, 25000), Fill(-5, "SELL", <<1, 2>>, 5000)}

TradedInputs ==
    [op : {"input"},
     symbol : Symbols,
     include_orders : {None({})},
     manual_price : {None(R(0)), Some(R(22000))},
     manual_arg : {Some(l) : l \in SeqsUpTo(TradedFills, MaxFills) \ {<< >>}},
     env : {e \in MetricsEnvs : e.orders.error = "NONE" /\ e.open.error = "NONE"}]

InitTraded ==
    /\ InitStream
    /\ now = 0
    /\ ticker_cache = EmptyDict
    /\ symbol_mappings = EmptyDict
    /\ manual_orders = EmptyDict
    /\ last \in TradedInputs
    /\ InitFile
    /\ InitPool

NextTraded == CalculatePositionMetrics

SpecTraded == InitTraded /\ [][NextTraded]_vars

\* quantities and costs are not negative, and no more was sold than bought
SoldWithinBought(fills) ==
    /\ \A i \in 1..Len(fills) :
          fills[i].executedQty[1] >= 0 /\ fills[i].cummulativeQuoteQty[1] >= 0
    /\ ~RLess(QtySum(fills, "BUY"), QtySum(fills, "SELL"))

\* C39: for every list of fills with non-negative quantities and costs whose
\* total SELL quantity does not exceed its total BUY quantity, the metrics
\* calculate_position_metrics returns have holdings >= 0, avg_buy_price >= 0
\* and break_even_price >= avg_buy_price.
C39_MetricsOfSoldHoldingNotNegative ==
    (IsMetricsCall /\ last.out.error = "NONE" /\ SoldWithinBought(UsedFills)) =>
        /\ last.out.holdings[1] >= 0
        /\ last.out.avg_buy_price[1] >= 0
        /\ ~RLess(last.out.break_even_price, last.out.avg_buy_price)

====
